---- MODULE Spec2Model ----
(***************************************************************************)
(* Image-sequence-to-video converter: the progress tracker, the error      *)
(* aggregator (ErrorLogger) and the background orchestrator                *)
(* (VideoProcessingWorker), modelled from the Python sources.              *)
(*                                                                         *)
(* The specifications below share one set of variables:                    *)
(*   SpecTracker - one ProgressTracker driven by an arbitrary caller       *)
(*   SpecTiming  - one timed operation on a tracker, with its call history *)
(*   SpecPersist - a tracker saved and loaded into a second tracker        *)
(*   SpecNotes   - one operation on a tracker, with errors, warnings and   *)
(*                 metrics attached to it at any point                     *)
(*   SpecWorker  - one run of VideoProcessingWorker, with stop() arriving  *)
(*                 from the caller's thread at any point                   *)
(*   SpecEncoder - one VideoEncoder.create_video call                      *)
(*   SpecSettings - one VideoEncoder.validate_settings call                *)
(*   SpecLoader  - one ImageLoader.load_and_validate_images call           *)
(*   SpecValidate - one ImageLoader.validate_files call                    *)
(*   SpecSort    - one list of files ordered by a strategy, twice          *)
(*   SpecPath    - one VideoProcessingWorker._generate_output_path call    *)
(*   SpecLogger  - one ErrorLogger used by several threads                 *)
(*   SpecReport  - the same with a reader that builds a report             *)
(*   SpecReenter - the same with error callbacks that call back into the   *)
(*                 ErrorLogger                                             *)
(*   SpecAppend  - one caller appending to an ErrorLogger and its log file *)
(*   SpecRecommend - one caller's entries and the report generated on them *)
(*   SpecInstances - two ErrorLogger instances created and used in one     *)
(*                 process                                                 *)
(***************************************************************************)
EXTENDS Integers, Sequences, FiniteSets, TLC

VARIABLES
    now,               \* the clock read by time.time() / datetime.now(), in seconds
    progress_tracker,  \* the ProgressTracker object (a record of its fields)
    cb_calls,          \* calls delivered to progress callbacks by the last update_progress
    escaped,           \* whether the last tracker call let an exception escape
    last_call,         \* the last tracker operation and its arguments
    ops,               \* number of tracker operations made by the free caller
    wpc,               \* position of VideoProcessingWorker.run
    should_stop,       \* VideoProcessingWorker.should_stop
    observed_stop,     \* a stage-boundary check has seen should_stop set
    finished,          \* processing_finished emissions, in order
    error_signals,     \* error_occurred emissions, in order
    progress_emits,    \* progress_updated emissions (percentages), in order
    error_logger,      \* the ErrorLogger object: its three collections and callbacks
    log_fs,            \* the log file, its backups, and the logger's file handlers
    posix,             \* the platform: rename replaces an existing target (POSIX) or fails
    lock,              \* ErrorLogger._lock: the thread holding it, or NoThread
    pc,                \* position of each appending thread inside _add_error
    cur,               \* the ErrorInfo each thread is appending
    count,             \* appends completed by each thread
    notified,          \* entries delivered to each error callback, in order
    submitted,         \* ids of all entries handed to _add_error so far
    rpc,               \* position of the reader inside generate_error_report
    report,            \* the report the reader is building
    video_encoder,     \* one VideoEncoder.create_video call: its arguments, position and effects
    state_file,        \* the document save_state wrote, or NoFile
    restored,          \* the tracker that load_state filled from state_file
    history,           \* the tracker calls of the operation being timed: <<op, step, time>>
    exceptions,        \* the stages of the run in which an exception was raised, in order
    valid_files,       \* the images stage 1 of the run found valid, or NotLoaded
    polls,             \* what each "if self.should_stop" of the run read, in order
    settings_call,     \* one VideoEncoder.validate_settings call: arguments and result
    loader_call,       \* one ImageLoader.load_and_validate_images call: directory and result
    sort_call,         \* one ordering of a file list: strategy, input, the list after, result
    path_call,         \* one _generate_output_path call: folder, settings, clock and result
    validate_call,     \* one ImageLoader.validate_files call: files, filesystem and result
    report_call,       \* one ErrorLogger.generate_error_report call: its result
    loggers            \* the ErrorLogger instances of one process and their log files

trackerVars == <<progress_tracker, cb_calls, escaped, last_call, ops>>
workerVars == <<wpc, should_stop, observed_stop, finished, error_signals, progress_emits>>
loggerVars == <<error_logger, log_fs, notified, submitted>>
threadVars == <<posix, lock, pc, cur, count, rpc, report>>
encoderVars == <<video_encoder>>
persistVars == <<state_file, restored, history>>
runVars == <<exceptions, valid_files, polls>>
auxVars == <<validate_call, report_call, loggers>>
callVars == <<settings_call, loader_call, sort_call, path_call, auxVars>>
sideVars == <<encoderVars, persistVars, runVars, callVars>>
vars == <<now, trackerVars, workerVars, loggerVars, threadVars, sideVars>>

(***************************************************************************)
(* Bounds of the model                                                     *)
(***************************************************************************)
MaxTime == 1        \* the clock runs over 0..MaxTime
MaxOps == 3         \* tracker operations made by the free caller
MaxStep == 2        \* steps and totals passed by the free caller are in 0..MaxStep
MaxCallbacks == 2   \* callbacks registered on one tracker
NumThreads == 2     \* threads appending to one ErrorLogger
MaxEntries == 3     \* entries appended by the threads together
MaxSeqAppends == 4  \* entries appended by the single caller of SpecAppend
MaxErrCallbacks == 2 \* error callbacks registered on one ErrorLogger
MaxLogLines == 1    \* max_log_size_bytes, in log lines: rotation when the file is larger
MaxClock == 2       \* the clock of a timed operation runs over 0..MaxClock
MaxCalls == 4       \* tracker calls made during one timed operation
MaxImages == 2      \* images passed to one create_video call
MaxPersistOps == 3  \* tracker calls made around one save_state / load_state
MaxFrameRate == 122 \* frame rates passed to validate_settings are in -1..MaxFrameRate
MaxDirEntries == 2  \* entries of the directory given to load_and_validate_images
MaxNotes == 2       \* add_error / add_warning / add_performance_metric calls on one tracker
MaxReported == 6    \* entries recorded before generate_error_report is called
MaxFiles == 3       \* files in a list given to an ordering strategy

(***************************************************************************)
(* Program constants                                                       *)
(***************************************************************************)
None == -1          \* Python's None for the optional timestamps and step numbers
TotalSteps == 5     \* initialize(5, "video_creation")

\* The step descriptions the orchestrator passes with steps 1..5
StepMessages ==
    <<"Loading and validating images", "Sorting images", "Preparing output settings",
      "Creating video", "Video creation completed">>

\* The message a caller passes with a step
StepMessage(step) ==
    IF step \in DOMAIN StepMessages THEN StepMessages[step] ELSE "Processing"

(***************************************************************************)
(* ProgressTracker                                                         *)
(***************************************************************************)

\* ProgressTracker.__init__ / reset
NewTracker ==
    [operation_id |-> "op_1", total_steps |-> 0, current_step |-> 0, operation_name |-> "",
     start_time |-> None, end_time |-> None, last_update_time |-> None,
     step_start_time |-> None, status |-> "initialized",
     step_timings |-> <<>>, performance_metrics |-> <<>>,
     errors |-> <<>>, warnings |-> <<>>, callbacks |-> <<>>,
     current_message |-> ""]

\* step_number=self.current_step if self.current_step > 0 else None
StepNumber(t) == IF t.current_step > 0 THEN t.current_step ELSE None

\* A plausible slip in add_error: recording an error also marks the operation
\* as failed.
AddErrorFailing(t, message, error_type, time) ==
    [t EXCEPT !.errors = Append(@, [message |-> message, type |-> error_type,
                                    timestamp |-> time, step_number |-> StepNumber(t)]),
              !.status = "failed"]

\* ProgressTracker.add_error
AddError(t, message, error_type, time) ==
    [t EXCEPT !.errors = Append(@, [message |-> message, type |-> error_type,
                                    timestamp |-> time, step_number |-> StepNumber(t)])]

\* ProgressTracker.add_warning
AddWarning(t, message, time) ==
    [t EXCEPT !.warnings = Append(@, [message |-> message, timestamp |-> time,
                                      step_number |-> StepNumber(t)])]

\* ProgressTracker.register_callback
RegisterCallback(t, cb) == [t EXCEPT !.callbacks = Append(@, cb)]

\* ProgressTracker.initialize
Initialize(t, total, name) ==
    [t EXCEPT !.total_steps = total, !.operation_name = name,
              !.current_step = 0, !.status = "initialized"]

\* ProgressTracker.start_timing
StartTiming(t, time) ==
    [t EXCEPT !.start_time = time, !.status = "running", !.step_start_time = time]

\* A plausible slip in the percentage: floor division, step // total * 100
PercentageFloorDiv(step, total) ==
    IF total > 0 THEN [num |-> (step \div total) * 100, den |-> 1] ELSE [num |-> 0, den |-> 1]

\* percentage = (step / self.total_steps) * 100 if self.total_steps > 0 else 0,
\* kept as the exact fraction num/den
Percentage(step, total) ==
    IF total > 0 THEN [num |-> step * 100, den |-> total] ELSE [num |-> 0, den |-> 1]

\* ProgressTracker.get_current_progress: 0.0 if total_steps == 0, otherwise
\* (current_step / total_steps) * 100
GetCurrentProgress(t) ==
    IF t.total_steps = 0 THEN [num |-> 0, den |-> 1]
    ELSE [num |-> t.current_step * 100, den |-> t.total_steps]

\* A plausible slip in get_estimated_time_remaining: the result is returned
\* without max(0, ...), so a start after the last update gives a negative value.
GetEstimatedTimeRemainingNoFloor(t, time) ==
    IF \/ t.start_time = None
       \/ t.current_step = 0
       \/ t.total_steps = 0
       \/ t.current_step >= t.total_steps
    THEN [known |-> FALSE, num |-> 0, den |-> 1]
    ELSE LET current_time == IF t.last_update_time = None \/ t.last_update_time = 0
                             THEN time ELSE t.last_update_time
         IN  [known |-> TRUE,
              num |-> (current_time - t.start_time) * (t.total_steps - t.current_step),
              den |-> t.current_step]

\* ProgressTracker.get_estimated_time_remaining: None, or the fraction num/den
\* of elapsed/ratio - elapsed = elapsed*(total-step)/step, floored at 0
GetEstimatedTimeRemaining(t, time) ==
    IF \/ t.start_time = None
       \/ t.current_step = 0
       \/ t.total_steps = 0
       \/ t.current_step >= t.total_steps
    THEN [known |-> FALSE, num |-> 0, den |-> 1]
    ELSE LET current_time == IF t.last_update_time = None \/ t.last_update_time = 0
                             THEN time ELSE t.last_update_time
             elapsed_time == current_time - t.start_time
             remaining == elapsed_time * (t.total_steps - t.current_step)
         IN  IF t.current_step <= 0
             THEN [known |-> FALSE, num |-> 0, den |-> 1]
             ELSE [known |-> TRUE,
                   num |-> IF remaining > 0 THEN remaining ELSE 0,
                   den |-> t.current_step]

\* A plausible slip in the callback loop: no try/except around the call, so the
\* first raising callback ends the loop and the exception leaves update_progress.
RECURSIVE NotifyCallbacksNoCatch(_, _, _, _)
NotifyCallbacksNoCatch(cbs, t, call, time) ==
    IF cbs = <<>>
    THEN [tracker |-> t, calls |-> <<>>, escaped |-> FALSE]
    ELSE LET cb == Head(cbs)
             delivered == [cb |-> cb.id, percentage |-> call.percentage,
                           message |-> call.message, eta |-> call.eta]
         IN  IF cb.raises
             THEN [tracker |-> t, calls |-> <<delivered>>, escaped |-> TRUE]
             ELSE LET rest == NotifyCallbacksNoCatch(Tail(cbs), t, call, time)
                  IN  [tracker |-> rest.tracker, calls |-> <<delivered>> \o rest.calls,
                       escaped |-> rest.escaped]

\* for callback in self.callbacks: try: callback(percentage, message, eta)
\* except Exception as e: self.add_error(f"Progress callback error: {e}", "CallbackError")
RECURSIVE NotifyCallbacks(_, _, _, _)
NotifyCallbacks(cbs, t, call, time) ==
    IF cbs = <<>>
    THEN [tracker |-> t, calls |-> <<>>, escaped |-> FALSE]
    ELSE LET cb == Head(cbs)
             delivered == [cb |-> cb.id, percentage |-> call.percentage,
                           message |-> call.message, eta |-> call.eta]
             t1 == IF cb.raises
                   THEN AddError(t, "Progress callback error", "CallbackError", time)
                   ELSE t
             rest == NotifyCallbacks(Tail(cbs), t1, call, time)
         IN  [tracker |-> rest.tracker, calls |-> <<delivered>> \o rest.calls,
              escaped |-> rest.escaped]

\* The StepTiming closed at `time` for the tracker's current step
ClosedTiming(t, window_start, time) ==
    [step_number |-> t.current_step, message |-> t.current_message,
     start_time |-> window_start, end_time |-> time, duration |-> time - window_start]

\* A plausible slip in update_progress: step_start_time is not moved to the
\* time of the update, so every window opens at the start of the operation.
UpdateProgressNoWindowReset(t, step, message, time) ==
    LET window_start == IF t.step_start_time = None THEN time ELSE t.step_start_time
        t1 == IF t.current_step > 0
              THEN [t EXCEPT !.step_timings = Append(@, ClosedTiming(t, window_start, time)),
                             !.step_start_time = window_start]
              ELSE [t EXCEPT !.step_start_time = window_start]
        t2 == [t1 EXCEPT !.current_step = step, !.current_message = message,
                         !.last_update_time = time]
        call == [percentage |-> Percentage(step, t2.total_steps), message |-> message,
                 eta |-> GetEstimatedTimeRemaining(t2, time)]
    IN  NotifyCallbacks(t2.callbacks, t2, call, time)

\* ProgressTracker.update_progress: the tracker after the call, the calls
\* delivered to the callbacks, and whether an exception escaped
UpdateProgress(t, step, message, time) ==
    LET window_start == IF t.step_start_time = None THEN time ELSE t.step_start_time
        t1 == IF t.current_step > 0
              THEN [t EXCEPT !.step_timings = Append(@, ClosedTiming(t, window_start, time)),
                             !.step_start_time = time]
              ELSE [t EXCEPT !.step_start_time = window_start]
        t2 == [t1 EXCEPT !.current_step = step, !.current_message = message,
                         !.last_update_time = time]
        call == [percentage |-> Percentage(step, t2.total_steps), message |-> message,
                 eta |-> GetEstimatedTimeRemaining(t2, time)]
    IN  NotifyCallbacks(t2.callbacks, t2, call, time)

\* A plausible slip in complete_operation: a guard that makes a second call
\* on a completed tracker do nothing.
CompleteOperationOnce(t, time) ==
    IF t.status = "completed" THEN t
    ELSE LET t1 == IF t.current_step > 0 /\ t.step_start_time # None
                   THEN [t EXCEPT !.step_timings =
                                      Append(@, ClosedTiming(t, t.step_start_time, time))]
                   ELSE t
         IN  [t1 EXCEPT !.end_time = time, !.status = "completed"]

\* ProgressTracker.complete_operation
CompleteOperation(t, time) ==
    LET t1 == IF t.current_step > 0 /\ t.step_start_time # None
              THEN [t EXCEPT !.step_timings =
                                 Append(@, ClosedTiming(t, t.step_start_time, time))]
              ELSE t
    IN  [t1 EXCEPT !.end_time = time, !.status = "completed"]

\* ProgressTracker.fail_operation
FailOperation(t, reason, time) ==
    AddError([t EXCEPT !.end_time = time, !.status = "failed"],
             reason, "OperationFailure", time)

\* ProgressTracker.generate_detailed_report (the fields the orchestrator's
\* callers read)
GenerateDetailedReport(t) ==
    [status |-> t.status,
     progress_percentage |-> GetCurrentProgress(t),
     steps_completed |-> t.current_step,
     total_steps |-> t.total_steps,
     step_count |-> Len(t.step_timings),
     error_count |-> Len(t.errors),
     warning_count |-> Len(t.warnings)]

(***************************************************************************)
(* ErrorLogger                                                             *)
(***************************************************************************)
Threads == 1..NumThreads
NoThread == 0

\* ErrorLogger.__init__: the three collections and the callback list
NewErrorLogger ==
    [errors |-> <<>>, warnings |-> <<>>, critical_errors |-> <<>>, error_callbacks |-> <<>>]

\* _setup_file_logging: the log file exists (FileHandler opens it in append
\* mode, keeping the `old` lines an earlier run left in it) and the logger has
\* one open handler on it
NewLogFs(old) ==
    [exists |-> TRUE, live |-> [i \in 1..old |-> [id |-> <<0, i>>, line |-> "entry"]],
     backups |-> {}, handlers |-> <<"open">>]

\* An ErrorInfo: who submitted it, its severity, whether it carries a stack trace
ErrorInfo(id, error_type, severity, stack_trace) ==
    [id |-> id, error_type |-> error_type, severity |-> severity, stack_trace |-> stack_trace]

\* The entry slot of a thread that is not inside _add_error
IdleEntry == ErrorInfo(<<0, 0>>, "", "error", FALSE)

\* A plausible slip in _add_error: `if warning ... if critical ... else errors`
\* (the second test not chained with elif), which files a warning under errors too.
StoreEntryUnchained(el, e) ==
    LET el1 == IF e.severity = "warning" THEN [el EXCEPT !.warnings = Append(@, e)] ELSE el
    IN  IF e.severity = "critical"
        THEN [el1 EXCEPT !.critical_errors = Append(@, e)]
        ELSE [el1 EXCEPT !.errors = Append(@, e)]

\* _add_error: the collection chosen by severity
StoreEntry(el, e) ==
    IF e.severity = "warning" THEN [el EXCEPT !.warnings = Append(@, e)]
    ELSE IF e.severity = "critical" THEN [el EXCEPT !.critical_errors = Append(@, e)]
    ELSE [el EXCEPT !.errors = Append(@, e)]

\* A plausible slip in _add_error: the callback loop placed after the
\* if/elif/else, so every severity notifies.
ShouldNotifyAll(e) == TRUE

\* _add_error: callbacks are notified in the critical branch only
ShouldNotify(e) == e.severity = "critical"

\* for callback in self.error_callbacks: try: callback(asdict(error_info))
\* except Exception: pass -- every callback is called, raising or not
NotifyErrorCallbacks(el, e, n) ==
    IF ShouldNotify(e)
    THEN [i \in DOMAIN n |-> IF i <= Len(el.error_callbacks) THEN Append(n[i], e.id) ELSE n[i]]
    ELSE n

\* ErrorLogger.register_error_callback
RegisterErrorCallback(el, cb) == [el EXCEPT !.error_callbacks = Append(@, cb)]

\* The lines one entry writes: logger.<level>(...) and, with a stack trace,
\* logger.error("Stack trace: ...")
EntryLines(e) ==
    IF e.stack_trace THEN <<[id |-> e.id, line |-> "entry"], [id |-> e.id, line |-> "stack"]>>
    ELSE <<[id |-> e.id, line |-> "entry"]>>

\* if self.log_file.exists() and self.log_file.stat().st_size > self.max_log_size_bytes
NeedsRotation(fs) == fs.exists /\ Len(fs.live) > MaxLogLines

\* for handler in self.logger.handlers[:]: handler.close(); removeHandler(handler)
CloseHandlers(fs) == [fs EXCEPT !.handlers = <<>>]

\* self.log_file.rename(backup_path), an exception ignored: on POSIX an existing
\* backup of the same name is replaced, elsewhere the rename fails and the live
\* file stays
RenameToBackup(fs, timestamp, replaces) ==
    IF ~fs.exists THEN fs
    ELSE IF \E b \in fs.backups : b.name = timestamp
    THEN IF replaces
         THEN [fs EXCEPT !.backups = {b \in @ : b.name # timestamp}
                                         \cup {[name |-> timestamp, content |-> fs.live]},
                         !.exists = FALSE, !.live = <<>>]
         ELSE fs
    ELSE [fs EXCEPT !.backups = @ \cup {[name |-> timestamp, content |-> fs.live]},
                    !.exists = FALSE, !.live = <<>>]

\* handler = logging.FileHandler(self.log_file); self.logger.addHandler(handler)
ReopenHandler(fs) == [fs EXCEPT !.exists = TRUE, !.handlers = Append(@, "open")]

\* _rotate_log_if_needed as one call
RotateLogIfNeeded(fs, timestamp, replaces) ==
    IF NeedsRotation(fs)
    THEN ReopenHandler(RenameToBackup(CloseHandlers(fs), timestamp, replaces))
    ELSE fs

\* self.logger.warning / error / critical: every handler of the logger appends
\* the lines to the log file; with no handler nothing reaches the file
WriteLines(fs, e) ==
    IF fs.handlers = <<>> THEN fs
    ELSE [fs EXCEPT !.exists = TRUE, !.live = @ \o EntryLines(e)]

\* _log_to_file as one call
LogToFile(fs, e, timestamp, replaces) ==
    WriteLines(RotateLogIfNeeded(fs, timestamp, replaces), e)

\* The ids of the entries found in the live file or in a backup
IdsOnDisk(fs) ==
    {fs.live[i].id : i \in DOMAIN fs.live}
        \cup UNION {{b.content[i].id : i \in DOMAIN b.content} : b \in fs.backups}

\* error_types[error_type] = error_types.get(error_type, 0) + 1 over all entries
CountByType(all_errors) ==
    [ty \in {all_errors[i].error_type : i \in DOMAIN all_errors} |->
        Cardinality({i \in DOMAIN all_errors : all_errors[i].error_type = ty})]

\* A plausible slip in get_error_summary: total_errors leaves out the critical
\* collection.
GetErrorSummaryErrorsOnly(el) ==
    [total_errors |-> Len(el.errors),
     total_warnings |-> Len(el.warnings),
     total_critical |-> Len(el.critical_errors),
     error_types |-> CountByType(el.errors \o el.warnings \o el.critical_errors)]

\* ErrorLogger.get_error_summary (the counts)
GetErrorSummary(el) ==
    [total_errors |-> Len(el.errors) + Len(el.critical_errors),
     total_warnings |-> Len(el.warnings),
     total_critical |-> Len(el.critical_errors),
     error_types |-> CountByType(el.errors \o el.warnings \o el.critical_errors)]

\* An ErrorInfo with its message: of the message the model keeps the words
\* that _generate_recommendations looks for in message.lower() ("file",
\* "not found", "permission", "space")
ErrorInfoWithMessage(id, error_type, severity, mentions) ==
    [id |-> id, error_type |-> error_type, severity |-> severity, stack_trace |-> FALSE,
     mentions |-> mentions]

\* all_errors = self.errors + self.warnings + self.critical_errors
AllErrors(el) == el.errors \o el.warnings \o el.critical_errors

\* ErrorLogger._generate_recommendations: the recommendations, each named by
\* its subject, in the order they are appended
GenerateRecommendations(errors) ==
    LET MentionsFile(e) == e.mentions \cap {"file", "not found"} # {}
        MentionsPermission(e) == "permission" \in e.mentions
        MentionsSpace(e) == "space" \in e.mentions
        IsImage(e) == e.error_type = "ImageProcessingError"
        IsVideo(e) == e.error_type = "VideoEncodingError"
        types == {errors[i].error_type : i \in DOMAIN errors}
    IN  IF errors = <<>> THEN <<>>
        ELSE (IF Cardinality({i \in DOMAIN errors : MentionsFile(errors[i])}) > 5 THEN <<"file_access">> ELSE <<>>)
             \o (IF Cardinality({i \in DOMAIN errors : MentionsPermission(errors[i])}) > 0 THEN <<"permission">> ELSE <<>>)
             \o (IF Cardinality({i \in DOMAIN errors : MentionsSpace(errors[i])}) > 0 THEN <<"disk_space">> ELSE <<>>)
             \o (IF Cardinality({i \in DOMAIN errors : IsImage(errors[i])}) > 3 THEN <<"image_integrity">> ELSE <<>>)
             \o (IF Cardinality({i \in DOMAIN errors : IsVideo(errors[i])}) > 0 THEN <<"video_encoding">> ELSE <<>>)
             \o (IF Cardinality(types) > 5 THEN <<"many_types">> ELSE <<>>)

\* ErrorLogger.generate_error_report (the recommendations of the report)
GenerateErrorReport(el) == [recommendations |-> GenerateRecommendations(AllErrors(el))]

\* The ErrorLogger instances of one process.  Every instance configures the
\* logger logging.getLogger('video_app_errors'), which the process has once:
\* the handlers of that logger are kept with the file they write to, so
\* fs.handlers of an instance are the handlers of the shared logger that are
\* open on the instance's log file.
Instances == {1, 2}

\* An instance that has not been constructed
NotCreated == [created |-> FALSE]

\* for handler in self.logger.handlers[:]: self.logger.removeHandler(handler)
\* -- the handlers of the shared logger, whichever file they write to
RemoveAllHandlers(ls) ==
    [j \in DOMAIN ls |-> IF ls[j].created THEN [ls[j] EXCEPT !.fs = CloseHandlers(@)] ELSE ls[j]]

\* ErrorLogger.__init__ / _setup_file_logging of instance i, on a log file of
\* its own
SetupFileLogging(ls, i) ==
    [RemoveAllHandlers(ls) EXCEPT ![i] = [created |-> TRUE, el |-> NewErrorLogger,
                                          fs |-> NewLogFs(0)]]

\* _rotate_log_if_needed of instance i: the size test and the rename are on
\* the instance's file, the handlers closed are those of the shared logger
RotateInstanceLogIfNeeded(ls, i, timestamp, replaces) ==
    IF NeedsRotation(ls[i].fs)
    THEN [RemoveAllHandlers(ls) EXCEPT
              ![i].fs = ReopenHandler(RenameToBackup(CloseHandlers(ls[i].fs), timestamp, replaces))]
    ELSE ls

\* self.logger.warning / error / critical: the shared logger hands the lines
\* to each of its handlers
WriteToHandlers(ls, e) ==
    [j \in DOMAIN ls |-> IF ls[j].created THEN [ls[j] EXCEPT !.fs = WriteLines(@, e)] ELSE ls[j]]

\* _add_error of instance i as one call
InstanceAddError(ls, i, e, timestamp, replaces) ==
    LET stored == [ls EXCEPT ![i].el = StoreEntry(@, e)]
    IN  WriteToHandlers(RotateInstanceLogIfNeeded(stored, i, timestamp, replaces), e)

InitLoggerObjects ==
    /\ error_logger = NewErrorLogger
    /\ notified = [i \in 1..MaxErrCallbacks |-> <<>>]
    /\ submitted = {}
    /\ lock = NoThread
    /\ pc = [t \in Threads |-> "idle"]
    /\ cur = [t \in Threads |-> IdleEntry]
    /\ count = [t \in Threads |-> 0]
    /\ rpc = "idle"
    /\ report = [summary |-> GetErrorSummary(NewErrorLogger), detailed |-> 0,
                 warnings |-> 0, critical_errors |-> 0]

\* A logger on a fresh log file
InitLoggerIdle ==
    /\ InitLoggerObjects
    /\ log_fs = NewLogFs(0)

\* A logger on a log file that is fresh or already over the size threshold
InitLoggerAnyFile ==
    /\ InitLoggerObjects
    /\ log_fs \in {NewLogFs(0), NewLogFs(MaxLogLines + 1)}

(***************************************************************************)
(* VideoEncoder                                                            *)
(***************************************************************************)

\* A path is the sequence of its characters
Chars(p) == {p[i] : i \in DOMAIN p}

\* The elements of a list
Range(seq) == {seq[i] : i \in DOMAIN seq}

\* str.rfind(c), 1-based; 0 when c does not occur
LastIndexOf(p, c) ==
    IF c \in Chars(p) THEN CHOOSE i \in DOMAIN p : p[i] = c /\ \A j \in DOMAIN p : p[j] = c => j <= i
    ELSE 0

\* PurePath.name: the final component
PathName(p) == SubSeq(p, LastIndexOf(p, "/") + 1, Len(p))

\* PurePath.suffix: name[i:] for the last dot of the name, unless that dot is
\* the first or the last character of the name
PathSuffix(p) ==
    LET name == PathName(p)
        i == LastIndexOf(name, ".")
    IN  IF 1 < i /\ i < Len(name) THEN SubSeq(name, i, Len(name)) ELSE <<>>

\* str.lower on the characters that occur in the paths below
LowerChar(c) ==
    CASE c = "M" -> "m" [] c = "P" -> "p" [] c = "O" -> "o" [] c = "V" -> "v"
      [] c = "A" -> "a" [] c = "B" -> "b" [] c = "N" -> "n" [] c = "G" -> "g"
      [] c = "I" -> "i" [] c = "K" -> "k" [] OTHER -> c

Lower(p) == [i \in DOMAIN p |-> LowerChar(p[i])]

\* VideoEncoder.SUPPORTED_FORMATS
SUPPORTED_FORMATS ==
    {<<".", "m", "p", "4">>, <<".", "a", "v", "i">>, <<".", "m", "o", "v">>, <<".", "m", "k", "v">>}

\* VideoEncoder.QUALITY_PRESETS (the preset names)
QUALITY_PRESETS == {"low", "medium", "high"}

\* A plausible slip in is_supported_output_format: the path is always taken for
\* a bare extension, so no path with a directory or a stem is supported.
IsSupportedOutputFormatBare(file_path) == Lower(file_path) \in SUPPORTED_FORMATS

\* VideoEncoder.is_supported_output_format: a string that starts with a dot is
\* taken for an extension, anything else for a path
IsSupportedOutputFormat(file_path) ==
    LET extension == IF file_path # <<>> /\ file_path[1] = "."
                     THEN Lower(file_path)
                     ELSE Lower(PathSuffix(file_path))
    IN  extension \in SUPPORTED_FORMATS

\* VideoEncoder.get_quality_settings: an unknown preset falls back to medium
GetQualitySettings(quality) == IF quality \in QUALITY_PRESETS THEN quality ELSE "medium"

\* VideoEncoder.validate_settings (the 'valid' field); create_video does not call it
ValidateSettings(fps, quality) == ~(fps < 1 \/ fps > 120) /\ quality \in QUALITY_PRESETS

\* VideoEncoder.get_supported_codecs
SUPPORTED_CODECS == {"libx264", "libx265", "mpeg4", "libvpx", "libvpx-vp9"}

\* A plausible slip in validate_settings: the codec finding is appended to the
\* errors.
ValidateSettingsReportCodecError(fps, quality, codec) ==
    LET fps_errors == IF fps < 1 \/ fps > 120 THEN <<"fps_range">> ELSE <<>>
        quality_errors == IF quality \notin QUALITY_PRESETS THEN <<"unknown_quality">> ELSE <<>>
        codec_errors == IF codec \notin SUPPORTED_CODECS \cup {"auto"}
                        THEN <<"codec_unsupported">> ELSE <<>>
        fps_warnings == IF fps < 1 \/ fps > 120 THEN <<>>
                        ELSE IF fps < 5 THEN <<"fps_very_low">>
                        ELSE IF fps > 60 THEN <<"fps_high">>
                        ELSE <<>>
        errors == fps_errors \o quality_errors \o codec_errors
    IN  [valid |-> Len(errors) = 0, errors |-> errors, warnings |-> fps_warnings]

\* VideoEncoder.validate_settings: the returned dictionary; each message is
\* written as the finding it reports
ValidateSettingsReport(fps, quality, codec) ==
    LET fps_errors == IF fps < 1 \/ fps > 120 THEN <<"fps_range">> ELSE <<>>
        fps_warnings == IF fps < 1 \/ fps > 120 THEN <<>>
                        ELSE IF fps < 5 THEN <<"fps_very_low">>
                        ELSE IF fps > 60 THEN <<"fps_high">>
                        ELSE <<>>
        quality_errors == IF quality \notin QUALITY_PRESETS THEN <<"unknown_quality">> ELSE <<>>
        codec_warnings == IF codec \notin SUPPORTED_CODECS \cup {"auto"}
                          THEN <<"codec_unsupported">> ELSE <<>>
        errors == fps_errors \o quality_errors
        warnings == fps_warnings \o codec_warnings
    IN  [valid |-> Len(errors) = 0, errors |-> errors, warnings |-> warnings]

NoResult == [success |-> FALSE, error |-> "none", reasons |-> <<>>]

\* A create_video call that has not been made
IdleEncoder ==
    [pc |-> "idle", moviepy_available |-> TRUE, image_files |-> <<>>, output_path |-> <<>>,
     fps |-> 15, quality |-> "medium", dir_created |-> FALSE, files_checked |-> 0,
     images_read |-> 0, backend_calls |-> 0, quality_settings |-> "none",
     clip_attempts |-> <<>>, clip |-> "none", written_clip |-> "none",
     write_attempts |-> <<>>, progress |-> <<>>, reported_errors |-> <<>>,
     result |-> NoResult]

\* create_video(image_files, output_path, fps, quality=...) is entered
EncoderCall(moviepy_available, image_files, output_path, fps, quality) ==
    [IdleEncoder EXCEPT !.pc = "called", !.moviepy_available = moviepy_available,
                        !.image_files = image_files, !.output_path = output_path,
                        !.fps = fps, !.quality = quality]

\* return {'success': ..., 'error': ...}
EncoderReturn(enc, success, error) ==
    [enc EXCEPT !.pc = "returned",
                !.result = [success |-> success, error |-> error, reasons |-> <<>>]]

\* progress_callback(percentage, ...): the return value is not looked at
EncoderProgress(enc, percentage) == [enc EXCEPT !.progress = Append(@, percentage)]

\* progress_callback(0, f"Error: {str(e)}")
EncoderProgressError(enc, error) ==
    [EncoderProgress(enc, 0) EXCEPT !.reported_errors = Append(@, error)]

\* create_video, the input checks: MoviePy, the image list, the output format;
\* then output_path.parent.mkdir(parents=True, exist_ok=True)
CreateVideoValidate(enc) ==
    IF ~enc.moviepy_available
    THEN EncoderReturn(enc, FALSE, "MoviePy is not available")
    ELSE IF enc.image_files = <<>>
    THEN EncoderReturn(enc, FALSE, "No images provided for video creation")
    ELSE IF ~IsSupportedOutputFormat(enc.output_path)
    THEN EncoderReturn(enc, FALSE, "Unsupported output format")
    ELSE [enc EXCEPT !.pc = "checking", !.dir_created = TRUE]

\* create_video, img_path.exists() / stat() for every image, then
\* progress_callback(0, "Initializing video creation...")
CreateVideoCheckFiles(enc) ==
    LET checked == [enc EXCEPT !.files_checked = Len(enc.image_files)]
    IN  IF \E i \in DOMAIN enc.image_files : enc.image_files[i] = "missing"
        THEN EncoderReturn(checked, FALSE, "Missing image files")
        ELSE IF \E i \in DOMAIN enc.image_files : enc.image_files[i] = "empty"
        THEN EncoderReturn(checked, FALSE, "Invalid or empty image files")
        ELSE EncoderProgress([checked EXCEPT !.pc = "loading"], 0)

\* Index of the first image Image.open fails on, or 0
FirstCorrupt(image_files) ==
    IF \E i \in DOMAIN image_files : image_files[i] = "corrupt"
    THEN CHOOSE i \in DOMAIN image_files :
             image_files[i] = "corrupt" /\ \A j \in 1..(i - 1) : image_files[j] # "corrupt"
    ELSE 0

\* The four ways a clip is constructed, in the order of the code
ClipStrategies == <<"arrays+durations", "arrays+fps", "paths+durations", "composite">>

\* A plausible slip in the construction chain: every method is tried, whatever
\* the methods before it gave.
ClipAttemptsAll(clip_results) ==
    [k \in 1..4 |-> [strategy |-> ClipStrategies[k], ok |-> clip_results[k]]]

\* create_video, the nested try blocks of Method 1 to Method 4: the
\* constructions made, in order, and whether each gave a clip; clip_results[k]
\* is whether the backend accepts the k-th construction
ClipAttempts(clip_results) ==
    LET last == IF \E k \in 1..4 : clip_results[k]
                THEN CHOOSE k \in 1..4 : clip_results[k] /\ \A j \in 1..(k - 1) : ~clip_results[j]
                ELSE 4
    IN  [k \in 1..last |-> [strategy |-> ClipStrategies[k], ok |-> clip_results[k]]]

\* The clip the constructions left in the variable clip: that of the last
\* construction that worked
ClipOf(attempts) ==
    IF \E k \in DOMAIN attempts : attempts[k].ok
    THEN attempts[CHOOSE k \in DOMAIN attempts :
                      attempts[k].ok /\ \A j \in DOMAIN attempts : attempts[j].ok => j <= k].strategy
    ELSE "none"

\* raise Exception("All ImageSequenceClip creation methods failed. ..."): the
\* message names e1, e2, e3 and e4, the failures of the four constructions
AllMethodsFailedReasons(attempts) == [k \in DOMAIN attempts |-> attempts[k].strategy]

\* create_video, progress_callback(10, ...), Image.open for every image
\* (progress_callback for i % 10 == 0), then the ImageSequenceClip is built
CreateVideoLoadImages(enc, clip_results) ==
    LET e10 == EncoderProgress(enc, 10)
        bad == FirstCorrupt(enc.image_files)
    IN  IF bad > 0
        THEN EncoderReturn([e10 EXCEPT !.images_read = bad,
                                       !.progress = IF bad > 1 THEN Append(@, 10) ELSE @],
                           FALSE, "Failed to load image")
        ELSE LET attempts == ClipAttempts(clip_results)
                 loaded == [e10 EXCEPT !.images_read = Len(enc.image_files),
                                       !.progress = Append(@, 10),
                                       !.backend_calls = @ + Len(attempts),
                                       !.clip_attempts = attempts,
                                       !.clip = ClipOf(attempts)]
             IN  IF loaded.clip # "none"
                 THEN [loaded EXCEPT !.pc = "encoding"]
                 ELSE [EncoderReturn(loaded, FALSE, "Failed to create video clip")
                          EXCEPT !.result.reasons = AllMethodsFailedReasons(attempts)]

\* One clip.write_videofile call: the parameters passed and what it did
WriteAttempt(params, fps, outcome) == [params |-> params, fps |-> fps, outcome |-> outcome]

\* A plausible slip in the write fallback: a failure of the call with fps and
\* codec ends the writing.
WriteAttemptsNoMinimal(fps, write_results) ==
    IF write_results[1] # "TypeError"
    THEN <<WriteAttempt("fps+codec+bitrate", fps, write_results[1])>>
    ELSE <<WriteAttempt("fps+codec+bitrate", fps, write_results[1]),
           WriteAttempt("fps+codec", fps, write_results[2])>>

\* create_video, the write_videofile calls made, in order: the full parameter
\* set; after a TypeError, fps and codec; after any exception of that call,
\* fps alone.  write_results[k] is what the backend does on the k-th call:
\* "ok", "TypeError" or "Exception" (any other exception)
WriteAttempts(fps, write_results) ==
    IF write_results[1] # "TypeError"
    THEN <<WriteAttempt("fps+codec+bitrate", fps, write_results[1])>>
    ELSE IF write_results[2] = "ok"
    THEN <<WriteAttempt("fps+codec+bitrate", fps, write_results[1]),
           WriteAttempt("fps+codec", fps, write_results[2])>>
    ELSE <<WriteAttempt("fps+codec+bitrate", fps, write_results[1]),
           WriteAttempt("fps+codec", fps, write_results[2]),
           WriteAttempt("fps", fps, write_results[3])>>

\* create_video, progress_callback(25, ...), get_quality_settings,
\* progress_callback(50, ...), clip.write_videofile; on success
\* progress_callback(100, ...), on an exception progress_callback(0, "Error: ...")
CreateVideoWrite(enc, write_results) ==
    LET attempts == WriteAttempts(enc.fps, write_results)
        started == [EncoderProgress(EncoderProgress(enc, 25), 50)
                        EXCEPT !.backend_calls = @ + Len(attempts),
                               !.quality_settings = GetQualitySettings(enc.quality),
                               !.written_clip = enc.clip,
                               !.write_attempts = attempts]
    IN  IF attempts[Len(attempts)].outcome = "ok"
        THEN EncoderReturn(EncoderProgress(started, 100), TRUE, "none")
        ELSE EncoderReturn(EncoderProgressError(started, "Error creating video"),
                           FALSE, "Error creating video")

\* create_video as one call
CreateVideo(enc, clip_results, write_results) ==
    LET validated == CreateVideoValidate(enc)
        checked == IF validated.pc = "checking" THEN CreateVideoCheckFiles(validated)
                   ELSE validated
        loaded == IF checked.pc = "loading" THEN CreateVideoLoadImages(checked, clip_results)
                  ELSE checked
    IN  IF loaded.pc = "encoding" THEN CreateVideoWrite(loaded, write_results) ELSE loaded

\* What the backend can do on the four constructions and on the three writes
ClipResults == [1..4 -> BOOLEAN]
WriteResults == [1..3 -> {"ok", "TypeError", "Exception"}]

(***************************************************************************)
(* ImageLoader                                                             *)
(*                                                                         *)
(* A file name is the sequence of its characters.  "sup2" stands for the   *)
(* character SUPERSCRIPT TWO: str.isdigit() is true of it, the pattern \d  *)
(* does not match it and int() does not accept it.                         *)
(***************************************************************************)
\* ImageLoader.SUPPORTED_EXTENSIONS
SUPPORTED_EXTENSIONS ==
    {<<".", "j", "p", "g">>, <<".", "j", "p", "e", "g">>, <<".", "p", "n", "g">>,
     <<".", "d", "c", "m">>, <<".", "d", "i", "c", "o", "m">>}

\* A plausible slip in is_supported_format: the extension is compared as it
\* is written, without lower().
IsSupportedFormatCaseSensitive(file_path) == PathSuffix(file_path) \in SUPPORTED_EXTENSIONS

\* ImageLoader.is_supported_format
IsSupportedFormat(file_path) == Lower(PathSuffix(file_path)) \in SUPPORTED_EXTENSIONS

\* The characters the pattern \d matches
IsDecimal(c) == c \in {"0", "1", "2", "3", "4", "5", "6", "7", "8", "9"}

\* The value int() gives a decimal character
DecimalValue(c) ==
    CASE c = "0" -> 0 [] c = "1" -> 1 [] c = "2" -> 2 [] c = "3" -> 3 [] c = "4" -> 4
      [] c = "5" -> 5 [] c = "6" -> 6 [] c = "7" -> 7 [] c = "8" -> 8 [] c = "9" -> 9

\* str.isdigit(): the string is not empty and every character is a digit,
\* decimal or not
IsDigit(part) == part # <<>> /\ \A i \in DOMAIN part : IsDecimal(part[i]) \/ part[i] = "sup2"

\* int(part) raises ValueError: a character of part is not a decimal
IntRaises(part) == \E i \in DOMAIN part : ~IsDecimal(part[i])

\* int(part) for a string of decimals
RECURSIVE IntOf(_)
IntOf(part) ==
    IF part = <<>> THEN 0
    ELSE IntOf(SubSeq(part, 1, Len(part) - 1)) * 10 + DecimalValue(part[Len(part)])

\* ord(c) for the characters of the names below
Ord(c) ==
    CASE c = "." -> 46 [] c = "/" -> 47 [] IsDecimal(c) -> 48 + DecimalValue(c)
      [] c = "A" -> 65 [] c = "B" -> 66 [] c = "G" -> 71 [] c = "N" -> 78 [] c = "P" -> 80
      [] c = "_" -> 95
      [] c = "a" -> 97 [] c = "b" -> 98 [] c = "c" -> 99 [] c = "d" -> 100 [] c = "e" -> 101
      [] c = "g" -> 103 [] c = "i" -> 105 [] c = "j" -> 106 [] c = "m" -> 109
      [] c = "n" -> 110 [] c = "o" -> 111 [] c = "p" -> 112 [] c = "t" -> 116
      [] c = "x" -> 120 [] c = "sup2" -> 178

\* A string as the sequence of its code points: the order of str is the
\* lexicographic order of these sequences
CodePoints(text) == [i \in DOMAIN text |-> Ord(text[i])]

\* re.split(r'(\d+)', text): the runs of text, those of other characters at
\* the odd places and those of decimals at the even places
RECURSIVE SplitDigitRuns(_)
SplitDigitRuns(text) ==
    IF \A i \in DOMAIN text : ~IsDecimal(text[i]) THEN <<text>>
    ELSE LET i == CHOOSE k \in DOMAIN text :
                      IsDecimal(text[k]) /\ \A m \in 1..(k - 1) : ~IsDecimal(text[m])
             j == CHOOSE k \in i..Len(text) :
                      /\ \A m \in i..k : IsDecimal(text[m])
                      /\ k = Len(text) \/ ~IsDecimal(text[k + 1])
         IN  <<SubSeq(text, 1, i - 1), SubSeq(text, i, j)>>
                 \o SplitDigitRuns(SubSeq(text, j + 1, Len(text)))

\* natural_key raises ValueError: a part passes isdigit() and int() rejects it
NaturalKeyRaises(path) ==
    LET parts == SplitDigitRuns(Lower(PathName(path)))
    IN  \E i \in DOMAIN parts : IsDigit(parts[i]) /\ IntRaises(parts[i])

\* natural_key: the list of numbers and strings; a number n is written <<n>>
\* and a string as its code points, so that lists compare as in Python
NaturalKey(path) ==
    LET parts == SplitDigitRuns(Lower(PathName(path)))
    IN  [i \in DOMAIN parts |->
            IF IsDigit(parts[i]) THEN <<IntOf(parts[i])>> ELSE CodePoints(parts[i])]

\* A plausible slip in natural_key: a run of decimals is kept as text
NaturalKeyText(path) ==
    LET parts == SplitDigitRuns(Lower(PathName(path)))
    IN  [i \in DOMAIN parts |-> CodePoints(parts[i])]

\* key=lambda p: p.name.lower()
AlphabeticalKey(path) == <<CodePoints(Lower(PathName(path)))>>

\* key=lambda p: p.name
NameKey(path) == <<CodePoints(PathName(path))>>

\* key=lambda p: p.stat().st_mtime
DateKey(path, fs) == <<<<fs.mtime[path]>>>>

\* a < b for two numbers or two strings (sequences of numbers)
RECURSIVE ItemLess(_, _)
ItemLess(a, b) ==
    IF b = <<>> THEN FALSE
    ELSE IF a = <<>> THEN TRUE
    ELSE IF a[1] # b[1] THEN a[1] < b[1]
    ELSE ItemLess(Tail(a), Tail(b))

\* k1 < k2 for two keys (lists of numbers and strings)
RECURSIVE KeyLess(_, _)
KeyLess(k1, k2) ==
    IF k2 = <<>> THEN FALSE
    ELSE IF k1 = <<>> THEN TRUE
    ELSE IF k1[1] # k2[1] THEN ItemLess(k1[1], k2[1])
    ELSE KeyLess(Tail(k1), Tail(k2))

\* A plausible slip in the ordering: an element whose key equals that of an
\* earlier element is left out.
SortedDroppingTies(items, keys) ==
    LET n == Len(items)
        kept == {i \in 1..n : \A j \in 1..(i - 1) : keys[j] # keys[i]}
        Rank(i) == Cardinality({j \in kept : KeyLess(keys[j], keys[i])}) + 1
    IN  [r \in 1..Cardinality(kept) |-> items[CHOOSE i \in kept : Rank(i) = r]]

\* sorted(items, key=...): keys[i] is the key of items[i]; the sort is stable,
\* so elements of equal keys keep the order they have in items
Sorted(items, keys) ==
    LET n == Len(items)
        Rank(i) == Cardinality({j \in 1..n : \/ KeyLess(keys[j], keys[i])
                                             \/ keys[j] = keys[i] /\ j < i}) + 1
    IN  [r \in 1..n |-> items[CHOOSE i \in 1..n : Rank(i) = r]]

\* What a call gives back: a list, or an exception that leaves the caller
Returned(files) == [raised |-> FALSE, files |-> files]
Raised == [raised |-> TRUE, files |-> <<>>]

\* ImageLoader.sort_files_natural
SortFilesNatural(file_paths) ==
    IF \E i \in DOMAIN file_paths : NaturalKeyRaises(file_paths[i]) THEN Raised
    ELSE Returned(Sorted(file_paths, [i \in DOMAIN file_paths |-> NaturalKey(file_paths[i])]))

\* sorted(files, key=lambda p: p.name.lower())
SortFilesAlphabetical(file_paths) ==
    Returned(Sorted(file_paths, [i \in DOMAIN file_paths |-> AlphabeticalKey(file_paths[i])]))

\* ImageLoader.sort_files_by_date: when stat() fails on a file, the files are
\* sorted by name
SortFilesByDate(file_paths, fs) ==
    IF \E i \in DOMAIN file_paths : file_paths[i] \in fs.stat_fails
    THEN Returned(Sorted(file_paths, [i \in DOMAIN file_paths |-> NameKey(file_paths[i])]))
    ELSE Returned(Sorted(file_paths, [i \in DOMAIN file_paths |-> DateKey(file_paths[i], fs)]))

\* The ordering chosen in load_and_validate_images by sort_method
LoaderSort(sort_method, file_paths, fs) ==
    CASE sort_method = "natural" -> SortFilesNatural(file_paths)
      [] sort_method = "alphabetical" -> SortFilesAlphabetical(file_paths)
      [] sort_method = "date" -> SortFilesByDate(file_paths, fs)
      [] OTHER -> SortFilesNatural(file_paths)

\* VideoProcessingWorker._sort_images, by settings['sorting_method']
SortImages(sorting_method, image_files, fs) ==
    CASE sorting_method = "modification_date" -> SortFilesByDate(image_files, fs)
      [] sorting_method = "alphabetical" -> SortFilesAlphabetical(image_files)
      [] OTHER -> SortFilesNatural(image_files)

(***************************************************************************)

(* ImageLoader: discovery and validation.  A directory is its state        *)
(* ("ok", "missing", "not_dir", "unreadable") and its entries in the order *)
(* iterdir() yields them; an entry is a name and what the name points at:  *)
(* "image" (a readable image), "empty" (a file of 0 bytes), "corrupt" (a   *)
(* file the content check rejects), "dir" (a subdirectory),                *)
(* "inaccessible" (a name whose stat() raises OSError).                    *)
(***************************************************************************)
\* The entry of a directory with the given name
EntryOf(directory, name) ==
    directory.entries[CHOOSE i \in DOMAIN directory.entries : directory.entries[i].name = name]

\* ImageLoader.find_supported_images
FindSupportedImages(directory) ==
    IF directory.status # "ok" THEN <<>>
    ELSE LET IsFound(entry) == entry.kind # "dir" /\ IsSupportedFormat(entry.name)
             found == SelectSeq(directory.entries, IsFound)
         IN  [i \in DOMAIN found |-> found[i].name]

\* What the filesystem holds at a path: the kind of its entry, or "missing"
FileKind(directory, path) ==
    IF \E i \in DOMAIN directory.entries : directory.entries[i].name = path
    THEN EntryOf(directory, path).kind
    ELSE "missing"

\* ImageLoader._validate_file_content: the extension selects the reader, and
\* the reader accepts the file if it can be read as an image
ValidateFileContent(directory, path) ==
    /\ Lower(PathSuffix(path)) \in SUPPORTED_EXTENSIONS
    /\ FileKind(directory, path) = "image"

\* The body of the loop of validate_files for one file: "valid", or the
\* error message appended for it
ValidateFile(directory, path) ==
    LET kind == FileKind(directory, path)
    IN  CASE kind = "missing" -> "File does not exist"
          [] kind = "inaccessible" -> "Cannot access file"
          [] kind = "empty" -> "File is empty"
          [] ValidateFileContent(directory, path) -> "valid"
          [] OTHER -> "File appears to be corrupted or invalid"

\* A plausible slip in validate_files: the first rejected file ends the loop
\* (break for continue).
ValidateFilesStopAtFirstError(file_paths, directory) ==
    LET IsRejected(i) == ValidateFile(directory, file_paths[i]) # "valid"
        bad == {i \in DOMAIN file_paths : IsRejected(i)}
    IN  IF bad = {}
        THEN [valid_files |-> file_paths, errors |-> <<>>]
        ELSE LET first == CHOOSE i \in bad : \A j \in bad : i <= j
             IN  [valid_files |-> SubSeq(file_paths, 1, first - 1),
                  errors |-> << [file |-> file_paths[first],
                                 error |-> ValidateFile(directory, file_paths[first])] >>]

\* ImageLoader.validate_files: (valid_files, errors)
ValidateFiles(file_paths, directory) ==
    LET IsValid(path) == ValidateFile(directory, path) = "valid"
        IsRejected(path) == ~IsValid(path)
        rejected == SelectSeq(file_paths, IsRejected)
    IN  [valid_files |-> SelectSeq(file_paths, IsValid),
         errors |-> [i \in DOMAIN rejected |->
                        [file |-> rejected[i],
                         error |-> ValidateFile(directory, rejected[i])]]]

\* ImageLoader.load_and_validate_images: the result dictionary, or the
\* exception the ordering raised
LoadAndValidateImages(directory, sort_method, fs) ==
    LET found_files == FindSupportedImages(directory)
        validation == ValidateFiles(found_files, directory)
        sorted_files == LoaderSort(sort_method, validation.valid_files, fs)
    IN  [raised |-> sorted_files.raised,
         valid_files |-> sorted_files.files,
         errors |-> IF sorted_files.raised THEN <<>> ELSE validation.errors,
         total_found |-> IF sorted_files.raised THEN 0 ELSE Len(found_files),
         total_valid |-> IF sorted_files.raised THEN 0 ELSE Len(validation.valid_files)]

(***************************************************************************)

(* VideoProcessingWorker._generate_output_path                             *)
(***************************************************************************)
\* str.endswith
EndsWith(text, suffix) ==
    /\ Len(suffix) <= Len(text)
    /\ SubSeq(text, Len(text) - Len(suffix) + 1, Len(text)) = suffix

\* PurePath.parent of a path without a trailing separator
PathParent(p) ==
    LET i == LastIndexOf(p, "/")
    IN  IF i = 0 THEN <<".">> ELSE IF i = 1 THEN <<"/">> ELSE SubSeq(p, 1, i - 1)

\* output_dir / output_filename
PathJoin(dir, name) ==
    IF name # <<>> /\ name[1] = "/" THEN name
    ELSE IF dir = <<".">> THEN name
    ELSE IF dir[Len(dir)] = "/" THEN dir \o name
    ELSE dir \o <<"/">> \o name

\* f"{folder_name}_video_{timestamp}.mp4"
AutoFilename(folder_name, timestamp) ==
    folder_name \o <<"_", "v", "i", "d", "e", "o", "_">> \o timestamp \o <<".", "m", "p", "4">>

\* VideoProcessingWorker._generate_output_path; an absent or empty setting is <<>>
GenerateOutputPath(folder_path, settings, timestamp) ==
    LET output_filename ==
            IF settings.output_filename = <<>>
            THEN AutoFilename(PathName(folder_path), timestamp)
            ELSE IF ~EndsWith(settings.output_filename, <<".", "m", "p", "4">>)
            THEN settings.output_filename \o <<".", "m", "p", "4">>
            ELSE settings.output_filename
        output_dir ==
            IF settings.output_directory # <<>> THEN settings.output_directory
            ELSE PathParent(folder_path)
    IN  PathJoin(output_dir, output_filename)

(***************************************************************************)

(* ProgressTracker.save_state / load_state                                 *)
(***************************************************************************)
NoFile == [saved |-> FALSE]

\* save_state: the document written with json.dump; step_start_time and the
\* callbacks are not among its keys
SaveState(t, time) ==
    [saved |-> TRUE,
     operation_id |-> t.operation_id, total_steps |-> t.total_steps,
     current_step |-> t.current_step, operation_name |-> t.operation_name,
     start_time |-> t.start_time, end_time |-> t.end_time,
     last_update_time |-> t.last_update_time, status |-> t.status,
     current_message |-> t.current_message, step_timings |-> t.step_timings,
     performance_metrics |-> t.performance_metrics, errors |-> t.errors,
     warnings |-> t.warnings, saved_at |-> time]

\* load_state: every key of the document except saved_at is assigned to the
\* tracker; step_start_time keeps the value the tracker had
LoadState(t, state) ==
    [t EXCEPT !.operation_id = state.operation_id, !.total_steps = state.total_steps,
              !.current_step = state.current_step, !.operation_name = state.operation_name,
              !.start_time = state.start_time, !.end_time = state.end_time,
              !.last_update_time = state.last_update_time, !.status = state.status,
              !.current_message = state.current_message,
              !.step_timings = state.step_timings,
              !.performance_metrics = state.performance_metrics,
              !.errors = state.errors, !.warnings = state.warnings, !.callbacks = <<>>]

\* ProgressTracker.add_performance_metric: performance_metrics[name] = value
AddPerformanceMetric(t, name, value) ==
    [t EXCEPT !.performance_metrics =
                  IF \E i \in DOMAIN @ : @[i].name = name
                  THEN [i \in DOMAIN @ |-> IF @[i].name = name
                                           THEN [name |-> name, value |-> value] ELSE @[i]]
                  ELSE Append(@, [name |-> name, value |-> value])]

\* tracker2 = ProgressTracker(): a second tracker, constructed later
SecondTracker == [NewTracker EXCEPT !.operation_id = "op_2"]

NotRestored == [loaded |-> FALSE, tracker |-> SecondTracker]

\* _load_and_validate_images has not returned
NotLoaded == <<"not loaded">>

\* A function of the program that has not been called
NotCalled == [pc |-> "idle"]

\* No create_video call, no saved state, no timed operation
InitSideIdle ==
    /\ video_encoder = IdleEncoder
    /\ state_file = NoFile
    /\ restored = NotRestored
    /\ history = <<>>
    /\ exceptions = <<>>
    /\ valid_files = NotLoaded
    /\ polls = <<>>
    /\ settings_call = NotCalled
    /\ loader_call = NotCalled
    /\ sort_call = NotCalled
    /\ path_call = NotCalled
    /\ validate_call = NotCalled
    /\ report_call = NotCalled
    /\ loggers = [i \in Instances |-> NotCreated]

(***************************************************************************)
(* The clock                                                               *)
(***************************************************************************)
Tick ==
    /\ now < MaxTime
    /\ now' = now + 1
    /\ UNCHANGED <<trackerVars, workerVars, sideVars, loggerVars, threadVars>>

(***************************************************************************)
(* SpecTracker: a caller makes any sequence of tracker operations          *)
(***************************************************************************)
NoCall == [op |-> "none", step |-> 0, message |-> "", errors_before |-> 0]

TrackerStep(t, op, step, message) ==
    /\ progress_tracker' = t
    /\ last_call' = [op |-> op, step |-> step, message |-> message,
                     errors_before |-> Len(progress_tracker.errors)]
    /\ UNCHANGED <<now, workerVars, sideVars, loggerVars, threadVars>>

CountOp ==
    /\ ops < MaxOps
    /\ ops' = ops + 1

TInitialize ==
    \E total \in 0..MaxStep :
        /\ CountOp
        /\ TrackerStep(Initialize(progress_tracker, total, "op"), "initialize", total, "")
        /\ UNCHANGED <<cb_calls, escaped>>

TStartTiming ==
    /\ CountOp
    /\ TrackerStep(StartTiming(progress_tracker, now), "start_timing", 0, "")
    /\ UNCHANGED <<cb_calls, escaped>>

TUpdateProgress ==
    \E step \in 0..MaxStep :
        LET r == UpdateProgress(progress_tracker, step, StepMessage(step), now)
        IN  /\ CountOp
            /\ TrackerStep(r.tracker, "update_progress", step, StepMessage(step))
            /\ cb_calls' = r.calls
            /\ escaped' = r.escaped

TCompleteOperation ==
    /\ CountOp
    /\ TrackerStep(CompleteOperation(progress_tracker, now), "complete_operation", 0, "")
    /\ UNCHANGED <<cb_calls, escaped>>

TFailOperation ==
    /\ CountOp
    /\ TrackerStep(FailOperation(progress_tracker, "Operation failed", now),
                   "fail_operation", 0, "")
    /\ UNCHANGED <<cb_calls, escaped>>

TRegisterCallback ==
    \E raises \in BOOLEAN :
        /\ Len(progress_tracker.callbacks) < MaxCallbacks
        /\ ops = 0
        /\ UNCHANGED ops
        /\ TrackerStep(RegisterCallback(progress_tracker,
                           [id |-> Len(progress_tracker.callbacks) + 1, raises |-> raises]),
                       "register_callback", 0, "")
        /\ UNCHANGED <<cb_calls, escaped>>

InitWorkerIdle ==
    /\ wpc = "start"
    /\ should_stop = FALSE
    /\ observed_stop = FALSE
    /\ finished = <<>>
    /\ error_signals = <<>>
    /\ progress_emits = <<>>

InitTracker ==
    /\ now = 0
    /\ progress_tracker = NewTracker
    /\ cb_calls = <<>>
    /\ escaped = FALSE
    /\ last_call = NoCall
    /\ ops = 0
    /\ InitWorkerIdle
    /\ InitLoggerIdle
    /\ InitSideIdle
    /\ posix = TRUE

NextTracker ==
    \/ Tick
    \/ TInitialize
    \/ TStartTiming
    \/ TUpdateProgress
    \/ TCompleteOperation
    \/ TFailOperation
    \/ TRegisterCallback

SpecTracker == InitTracker /\ [][NextTracker]_vars

(***************************************************************************)
(* SpecLogger: threads append to one ErrorLogger while a reader builds a   *)
(* report; _add_error is split at the points where threads can interleave  *)
(***************************************************************************)
\* log_warning, log_error, log_critical
EntryKinds ==
    {[error_type |-> "Warning", severity |-> "warning", stack_trace |-> FALSE],
     [error_type |-> "ApplicationError", severity |-> "error", stack_trace |-> FALSE],
     [error_type |-> "CriticalError", severity |-> "critical", stack_trace |-> FALSE]}

\* handle_generic_error(..., preserve_stack=True)
StackKinds == {[error_type |-> "Exception", severity |-> "error", stack_trace |-> TRUE]}

\* A plausible slip: _add_error without `with self._lock:`
CanAcquireUnlocked(t) == TRUE

\* A plausible slip in __init__: threading.RLock() for threading.Lock(), which
\* lets the thread that holds the lock take it again.
CanAcquireReentrant(t) == lock \in {NoThread, t}

\* with self._lock: a thread enters only when no thread holds the lock
\* (threading.Lock: the thread that holds it waits like any other)
CanAcquire(t) == lock = NoThread

\* log_warning / log_error / log_critical / handle_generic_error: the ErrorInfo
\* is built and _add_error is entered
Submit(t) ==
    \E k \in EntryKinds :
        /\ pc[t] = "idle"
        /\ Cardinality(submitted) < MaxEntries
        /\ cur' = [cur EXCEPT ![t] = ErrorInfo(<<t, count[t] + 1>>, k.error_type,
                                               k.severity, k.stack_trace)]
        /\ submitted' = submitted \cup {<<t, count[t] + 1>>}
        /\ pc' = [pc EXCEPT ![t] = "acquire"]
        /\ UNCHANGED <<now, trackerVars, workerVars, sideVars, error_logger, log_fs, notified,
                       posix, lock, count, rpc, report>>

\* _add_error: the lock is taken, the entry stored and, if critical, the
\* callbacks notified
Collect(t) ==
    /\ pc[t] = "acquire"
    /\ CanAcquire(t)
    /\ lock' = t
    /\ error_logger' = StoreEntry(error_logger, cur[t])
    /\ notified' = NotifyErrorCallbacks(error_logger, cur[t], notified)
    /\ pc' = [pc EXCEPT ![t] = "rotate_check"]
    /\ UNCHANGED <<now, trackerVars, workerVars, sideVars, log_fs, submitted,
                   posix, cur, count, rpc, report>>

\* _rotate_log_if_needed: the size test, then close and remove the handlers
RotateCheck(t) ==
    /\ pc[t] = "rotate_check"
    /\ IF NeedsRotation(log_fs)
       THEN /\ log_fs' = CloseHandlers(log_fs)
            /\ pc' = [pc EXCEPT ![t] = "rename"]
            /\ UNCHANGED cur
       ELSE /\ pc' = [pc EXCEPT ![t] = "emit"]
            /\ UNCHANGED <<log_fs, cur>>
    /\ UNCHANGED <<now, trackerVars, workerVars, sideVars, error_logger, notified, submitted,
                   posix, lock, count, rpc, report>>

\* _rotate_log_if_needed: the live file is renamed to the timestamped backup
Rename(t) ==
    /\ pc[t] = "rename"
    /\ log_fs' = RenameToBackup(log_fs, now, posix)
    /\ pc' = [pc EXCEPT ![t] = "reopen"]
    /\ UNCHANGED <<now, trackerVars, workerVars, sideVars, error_logger, notified, submitted,
                   posix, lock, cur, count, rpc, report>>

\* _rotate_log_if_needed: a new handler is created on the log path
Reopen(t) ==
    /\ pc[t] = "reopen"
    /\ log_fs' = ReopenHandler(log_fs)
    /\ pc' = [pc EXCEPT ![t] = "emit"]
    /\ UNCHANGED <<now, trackerVars, workerVars, sideVars, error_logger, notified, submitted,
                   posix, lock, cur, count, rpc, report>>

\* _log_to_file: the entry is written through the logger's handlers; the
\* with-block ends and _add_error returns
Emit(t) ==
    /\ pc[t] = "emit"
    /\ log_fs' = WriteLines(log_fs, cur[t])
    /\ lock' = IF lock = t THEN NoThread ELSE lock
    /\ count' = [count EXCEPT ![t] = @ + 1]
    /\ cur' = [cur EXCEPT ![t] = IdleEntry]
    /\ pc' = [pc EXCEPT ![t] = "idle"]
    /\ UNCHANGED <<now, trackerVars, workerVars, sideVars, error_logger, notified, submitted,
                   posix, rpc, report>>

\* generate_error_report: summary = self.get_error_summary(), under the lock
ReportSummary ==
    /\ rpc = "idle"
    /\ lock = NoThread
    /\ report' = [report EXCEPT !.summary = GetErrorSummary(error_logger)]
    /\ rpc' = "summary"
    /\ UNCHANGED <<now, trackerVars, workerVars, sideVars, loggerVars, posix, lock, pc, cur, count>>

\* generate_error_report: all_errors = self.errors + self.warnings +
\* self.critical_errors, grouped into detailed_errors, read without the lock
ReportDetails ==
    /\ rpc = "summary"
    /\ report' = [report EXCEPT !.detailed = Len(error_logger.errors)
                                    + Len(error_logger.warnings)
                                    + Len(error_logger.critical_errors)]
    /\ rpc' = "details"
    /\ UNCHANGED <<now, trackerVars, workerVars, sideVars, loggerVars, posix, lock, pc, cur, count>>

\* generate_error_report: 'warnings': self.get_warnings(), under the lock
ReportWarnings ==
    /\ rpc = "details"
    /\ lock = NoThread
    /\ report' = [report EXCEPT !.warnings = Len(error_logger.warnings)]
    /\ rpc' = "warnings"
    /\ UNCHANGED <<now, trackerVars, workerVars, sideVars, loggerVars, posix, lock, pc, cur, count>>

\* generate_error_report: 'critical_errors': self.get_critical_errors(), under
\* the lock; the report is returned
ReportCritical ==
    /\ rpc = "warnings"
    /\ lock = NoThread
    /\ report' = [report EXCEPT !.critical_errors = Len(error_logger.critical_errors)]
    /\ rpc' = "done"
    /\ UNCHANGED <<now, trackerVars, workerVars, sideVars, loggerVars, posix, lock, pc, cur, count>>

InitTrackerIdle ==
    /\ progress_tracker = NewTracker
    /\ cb_calls = <<>>
    /\ escaped = FALSE
    /\ last_call = NoCall
    /\ ops = 0

InitLogger ==
    /\ now = 0
    /\ InitTrackerIdle
    /\ InitWorkerIdle
    /\ InitLoggerAnyFile
    /\ InitSideIdle
    /\ posix = TRUE   \* at most one rotation fits in MaxEntries: no rename meets a backup

NextLogger ==
    \/ \E t \in Threads : Submit(t)
    \/ \E t \in Threads : Collect(t)
    \/ \E t \in Threads : RotateCheck(t)
    \/ \E t \in Threads : Rename(t)
    \/ \E t \in Threads : Reopen(t)
    \/ \E t \in Threads : Emit(t)

SpecLogger == InitLogger /\ [][NextLogger]_vars

\* SpecReport: the appending threads together with one generate_error_report
NextReport ==
    \/ NextLogger
    \/ ReportSummary
    \/ ReportDetails
    \/ ReportWarnings
    \/ ReportCritical

SpecReport == InitLogger /\ [][NextReport]_vars

(***************************************************************************)
(* SpecAppend: one caller appends entries one after another; each          *)
(* _add_error call is one step, and the clock may advance between calls    *)
(***************************************************************************)
Caller == 1

\* _add_error as one call: store, notify, rotate if needed, write
AddErrorCall(e) ==
    /\ error_logger' = StoreEntry(error_logger, e)
    /\ notified' = NotifyErrorCallbacks(error_logger, e, notified)
    /\ log_fs' = LogToFile(log_fs, e, now, posix)

\* log_warning / log_error / log_critical / handle_generic_error
AAppend ==
    \E k \in EntryKinds \cup StackKinds :
        LET e == ErrorInfo(<<Caller, count[Caller] + 1>>, k.error_type,
                           k.severity, k.stack_trace)
        IN  /\ count[Caller] < MaxSeqAppends
            /\ AddErrorCall(e)
            /\ submitted' = submitted \cup {e.id}
            /\ count' = [count EXCEPT ![Caller] = @ + 1]
            /\ cur' = [cur EXCEPT ![Caller] = e]
            /\ UNCHANGED <<now, trackerVars, workerVars, sideVars, posix, lock, pc, rpc, report>>

\* register_error_callback, made by the caller before its first append
ARegisterErrorCallback ==
    \E raises \in BOOLEAN :
        /\ Len(error_logger.error_callbacks) < MaxErrCallbacks
        /\ count[Caller] = 0
        /\ error_logger' = RegisterErrorCallback(error_logger, [raises |-> raises])
        /\ cur' = [cur EXCEPT ![Caller] = IdleEntry]
        /\ UNCHANGED <<now, trackerVars, workerVars, sideVars, log_fs, notified, submitted,
                       posix, lock, pc, count, rpc, report>>

InitAppend ==
    /\ now = 0
    /\ InitTrackerIdle
    /\ InitWorkerIdle
    /\ InitLoggerAnyFile
    /\ InitSideIdle
    /\ posix \in BOOLEAN

NextAppend ==
    \/ Tick
    \/ ARegisterErrorCallback
    \/ AAppend

SpecAppend == InitAppend /\ [][NextAppend]_vars

(***************************************************************************)
(* SpecWorker: one run of VideoProcessingWorker; stop() may be called from *)
(* the caller's thread at any moment while the worker thread is running    *)
(***************************************************************************)

\* A plausible slip in the reading of __init__: the registered callback has the
\* three parameters update_progress passes, so the call does not raise.
WorkerTrackerMatchingCallback ==
    RegisterCallback(NewTracker, [id |-> 1, raises |-> FALSE])

\* VideoProcessingWorker.__init__: the tracker with _on_progress_update
\* registered. That method takes one argument (data) and update_progress calls
\* callbacks with three, so the call raises TypeError every time.
WorkerTracker ==
    RegisterCallback(NewTracker, [id |-> 1, raises |-> TRUE])

\* The percentages _process_video emits before the checks of stages 1..4
StageProgress == <<5, 15, 20, 25>>

NoReport ==
    [status |-> "", progress_percentage |-> Percentage(0, 0), steps_completed |-> 0,
     total_steps |-> 0, step_count |-> 0, error_count |-> 0, warning_count |-> 0]

\* processing_finished.emit(success, message, report); {} is NoReport
Finished(success, message, has_report, rep) ==
    [success |-> success, message |-> message, has_report |-> has_report, report |-> rep]

\* error_logger.log_error / handle_* called by the worker: _add_error as one call
RECURSIVE WorkerLog(_, _, _, _)
WorkerLog(el, fs, n, kinds) ==
    IF kinds = <<>> THEN [el |-> el, fs |-> fs, n |-> n]
    ELSE LET k == Head(kinds)
             e == ErrorInfo(<<Caller, n + 1>>, k.error_type, k.severity, k.stack_trace)
         IN  WorkerLog(StoreEntry(el, e), LogToFile(fs, e, now, posix), n + 1, Tail(kinds))

ApplicationError == [error_type |-> "ApplicationError", severity |-> "error", stack_trace |-> FALSE]
FileOperationError == [error_type |-> "FileOperationError", severity |-> "error", stack_trace |-> FALSE]
VideoEncodingError == [error_type |-> "VideoEncodingError", severity |-> "error", stack_trace |-> FALSE]
GenericError == [error_type |-> "Exception", severity |-> "error", stack_trace |-> TRUE]

\* The worker's calls on its ErrorLogger in one step
LogAll(kinds) ==
    LET r == WorkerLog(error_logger, log_fs, count[Caller], kinds)
    IN  /\ error_logger' = r.el
        /\ log_fs' = r.fs
        /\ count' = [count EXCEPT ![Caller] = r.n]
        /\ submitted' = submitted \cup {<<Caller, i>> : i \in (count[Caller] + 1)..r.n}
        /\ UNCHANGED <<notified, posix, lock, pc, cur, rpc, report>>

\* The worker's tracker after a step; the free caller's bookkeeping is unused
SetTracker(t) ==
    /\ progress_tracker' = t
    /\ UNCHANGED <<cb_calls, escaped, last_call, ops>>

\* except Exception as e: handle_generic_error(..., preserve_stack=True);
\* processing_finished.emit(False, f"Processing failed: {e}", {})
FailedByException == Finished(FALSE, "Processing failed", FALSE, NoReport)

\* run / _process_video: initialize(5, "video_creation"); start_timing()
WBegin ==
    /\ wpc = "start"
    /\ SetTracker(StartTiming(Initialize(progress_tracker, TotalSteps, "video_creation"), now))
    /\ wpc' = "check1"
    /\ UNCHANGED <<now, should_stop, observed_stop, finished, error_signals,
                   progress_emits, loggerVars, threadVars, sideVars>>

\* _emit_progress(p, ...); if self.should_stop: return -- before stage k
WCheck(k) ==
    /\ wpc = <<"check1", "check2", "check3", "check4">>[k]
    /\ progress_emits' = Append(progress_emits, StageProgress[k])
    /\ IF should_stop
       THEN /\ observed_stop' = TRUE
            /\ wpc' = "finally"
       ELSE /\ wpc' = <<"stage1", "stage2", "stage3", "stage4">>[k]
            /\ UNCHANGED observed_stop
    /\ polls' = Append(polls, should_stop)
    /\ UNCHANGED <<now, trackerVars, should_stop, finished, error_signals,
                   loggerVars, threadVars, encoderVars, persistVars, callVars,
                   exceptions, valid_files>>

\* A plausible slip in the except clause of _process_video: the exception is
\* logged but no completion notification is emitted.
EmitOnExceptionSilent(fin) == fin

\* except Exception as e: ...; processing_finished.emit(False, f"Processing failed: {e}", {})
EmitOnException(fin) == Append(fin, FailedByException)

\* The image files that passed validation, sorted
WorkerImages == <<"ok", "ok">>

\* Stage 1: update_progress(1, ...); _load_and_validate_images(); the
\* no-valid-file exit; an exception is logged by handle_file_error, re-raised
\* and handled by the except clause of _process_video
WLoad ==
    \E outcome \in {"valid", "valid_some_rejected", "all_rejected", "empty", "raise"} :
        /\ wpc = "stage1"
        /\ SetTracker(UpdateProgress(progress_tracker, 1, StepMessages[1], now).tracker)
        /\ progress_emits' = IF outcome \in {"empty", "raise"} THEN progress_emits
                             ELSE Append(progress_emits, 15)
        /\ LogAll(CASE outcome = "valid" -> <<>>
                    [] outcome = "valid_some_rejected" -> <<ApplicationError>>
                    [] outcome = "all_rejected" -> <<ApplicationError, ApplicationError>>
                    [] outcome = "empty" -> <<ApplicationError>>
                    [] outcome = "raise" -> <<FileOperationError, GenericError>>)
        /\ finished' = CASE outcome \in {"all_rejected", "empty"} ->
                              Append(finished, Finished(FALSE, "No valid image files found",
                                                        FALSE, NoReport))
                         [] outcome = "raise" -> EmitOnException(finished)
                         [] OTHER -> finished
        /\ exceptions' = IF outcome = "raise" THEN Append(exceptions, "stage1") ELSE exceptions
        /\ valid_files' = CASE outcome \in {"valid", "valid_some_rejected"} -> WorkerImages
                             [] outcome \in {"all_rejected", "empty"} -> <<>>
                             [] OTHER -> valid_files
        /\ UNCHANGED polls
        /\ wpc' = IF outcome \in {"valid", "valid_some_rejected"} THEN "check2" ELSE "finally"
        /\ UNCHANGED <<now, should_stop, observed_stop, error_signals, encoderVars, persistVars, callVars>>

\* Stage 2: update_progress(2, ...); _sort_images(); an exception raised by
\* the sort is handled by the except clause of _process_video
WSort ==
    \E raised \in BOOLEAN :
        /\ wpc = "stage2"
        /\ SetTracker(UpdateProgress(progress_tracker, 2, StepMessages[2], now).tracker)
        /\ LogAll(IF raised THEN <<GenericError>> ELSE <<>>)
        /\ finished' = IF raised THEN EmitOnException(finished) ELSE finished
        /\ exceptions' = IF raised THEN Append(exceptions, "stage2") ELSE exceptions
        /\ UNCHANGED <<valid_files, polls>>
        /\ wpc' = IF raised THEN "finally" ELSE "check3"
        /\ UNCHANGED <<now, should_stop, observed_stop, error_signals, progress_emits,
                       encoderVars, persistVars, callVars>>

\* _generate_output_path: output_dir / output_filename, the name ending in .mp4;
\* the directory is absolute, or relative to a parent of the working directory
WorkerOutputPaths ==
    {<<"/", "v", "/", "a", ".", "m", "p", "4">>,
     <<".", ".", "/", "v", "/", "a", ".", "m", "p", "4">>}

\* frame_rate = int(self.settings.get('frame_rate', 15))
WorkerFrameRate == 15

\* Stage 3: update_progress(3, ...); _generate_output_path(); an exception
\* (settings of the wrong type) is handled by the except clause of _process_video
WPrepare ==
    \E raised \in BOOLEAN, output_path \in WorkerOutputPaths :
        /\ wpc = "stage3"
        /\ SetTracker(UpdateProgress(progress_tracker, 3, StepMessages[3], now).tracker)
        /\ LogAll(IF raised THEN <<GenericError>> ELSE <<>>)
        /\ finished' = IF raised THEN EmitOnException(finished) ELSE finished
        /\ exceptions' = IF raised THEN Append(exceptions, "stage3") ELSE exceptions
        /\ UNCHANGED <<valid_files, polls>>
        /\ video_encoder' = IF raised THEN video_encoder
                            ELSE [video_encoder EXCEPT !.output_path = output_path]
        /\ wpc' = IF raised THEN "finally" ELSE "check4"
        /\ UNCHANGED <<now, should_stop, observed_stop, error_signals, progress_emits,
                       persistVars, callVars>>

\* A plausible slip in _on_video_progress: the encoder's percentage is emitted
\* as it is, not mapped into the 25..95 range of stage 4.
VideoProgressEmitUnmapped(percentage) == percentage

\* int(25 + percentage * 70 / 100)
VideoProgressEmit(percentage) == 25 + (percentage * 70) \div 100

\* A plausible slip in _on_video_progress: the flag is not looked at, so the
\* mapped percentage is emitted for every call of the encoder.
OnVideoProgressIgnoringStop(before, after) ==
    LET calls == SubSeq(after.progress, Len(before.progress) + 1, Len(after.progress))
    IN  /\ progress_emits' =
               progress_emits \o [i \in DOMAIN calls |-> VideoProgressEmit(calls[i])]
        /\ UNCHANGED observed_stop

\* _on_video_progress for the calls create_video made in one step: with
\* should_stop set it returns False and emits nothing, otherwise it emits the
\* mapped percentage
OnVideoProgress(before, after) ==
    LET calls == SubSeq(after.progress, Len(before.progress) + 1, Len(after.progress))
    IN  IF should_stop
        THEN /\ observed_stop' = (observed_stop \/ calls # <<>>)
             /\ UNCHANGED progress_emits
        ELSE /\ progress_emits' =
                    progress_emits \o [i \in DOMAIN calls |-> VideoProgressEmit(calls[i])]
             /\ UNCHANGED observed_stop

\* The position of run after a step of create_video
AfterEncoderStep(enc, next) == IF enc.pc = "returned" THEN "encode_end" ELSE next

\* Stage 4: update_progress(4, ...); _create_video() calls create_video, which
\* checks its inputs and the image files; an exception raised before the
\* encoder's own try block (int(), mkdir) is caught by _create_video
WEncodeBegin ==
    \E moviepy_available \in BOOLEAN, raised \in BOOLEAN :
        LET call == EncoderCall(moviepy_available, valid_files, video_encoder.output_path,
                                WorkerFrameRate, "medium")
            validated == CreateVideoValidate(call)
            enc == IF raised THEN [call EXCEPT !.pc = "raised"]
                   ELSE IF validated.pc = "checking" THEN CreateVideoCheckFiles(validated)
                   ELSE validated
        IN  /\ wpc = "stage4"
            /\ SetTracker(UpdateProgress(progress_tracker, 4, StepMessages[4], now).tracker)
            /\ video_encoder' = enc
            /\ OnVideoProgress(call, enc)
            /\ exceptions' = IF raised THEN Append(exceptions, "stage4") ELSE exceptions
            /\ UNCHANGED <<valid_files, polls>>
            /\ wpc' = IF raised THEN "encode_end" ELSE AfterEncoderStep(enc, "encode_load")
            /\ UNCHANGED <<now, should_stop, finished, error_signals, loggerVars, threadVars,
                           persistVars, callVars>>

\* Stage 4, create_video reads the images and builds the clip
WEncodeLoad ==
    \E clip_results \in ClipResults :
        LET enc == CreateVideoLoadImages(video_encoder, clip_results)
        IN  /\ wpc = "encode_load"
            /\ video_encoder' = enc
            /\ OnVideoProgress(video_encoder, enc)
            /\ wpc' = AfterEncoderStep(enc, "encode_write")
            /\ UNCHANGED <<now, trackerVars, should_stop, finished, error_signals,
                           loggerVars, threadVars, persistVars, callVars, runVars>>

\* Stage 4, create_video writes the video file and returns
WEncodeWrite ==
    \E write_results \in WriteResults :
        LET enc == CreateVideoWrite(video_encoder, write_results)
        IN  /\ wpc = "encode_write"
            /\ video_encoder' = enc
            /\ OnVideoProgress(video_encoder, enc)
            /\ wpc' = "encode_end"
            /\ UNCHANGED <<now, trackerVars, should_stop, finished, error_signals,
                           loggerVars, threadVars, persistVars, callVars, runVars>>

\* A plausible slip in _create_video: result.get('success', True), which takes
\* a result without the key, and here any result, for a success.
CreateVideoSucceededByDefault(enc) == enc.pc = "returned"

\* _create_video: True if result.get('success', False), False for a failure
\* result and for an exception
CreateVideoSucceeded(enc) == enc.pc = "returned" /\ enc.result.success

\* Stage 4, _create_video has the result. Success: update_progress(5, ...),
\* complete_operation(), the report, _emit_progress(100), the success
\* notification. Failure (a failure result or an exception, both logged inside
\* _create_video): fail_operation and the failure notification.
WEncodeEnd ==
    LET success == CreateVideoSucceeded(video_encoder)
    IN  /\ wpc = "encode_end"
        /\ IF success
           THEN LET t == CompleteOperation(
                             UpdateProgress(progress_tracker, 5, StepMessages[5], now).tracker,
                             now)
                IN  /\ SetTracker(t)
                    /\ progress_emits' = Append(progress_emits, 100)
                    /\ finished' = Append(finished,
                           Finished(TRUE, "Video saved", TRUE, GenerateDetailedReport(t)))
                    /\ LogAll(<<>>)
           ELSE /\ SetTracker(FailOperation(
                       AddError(progress_tracker, "Video creation error", "video_encoding", now),
                       "Video creation failed", now))
                /\ finished' = Append(finished,
                       Finished(FALSE, "Video creation failed", FALSE, NoReport))
                /\ LogAll(<<VideoEncodingError>>)
                /\ UNCHANGED progress_emits
        /\ wpc' = "finally"
        /\ UNCHANGED <<now, should_stop, observed_stop, error_signals, sideVars>>

\* finally: self.progress_tracker.complete_operation(); run returns
WFinally ==
    /\ wpc = "finally"
    /\ SetTracker(CompleteOperation(progress_tracker, now))
    /\ wpc' = "done"
    /\ UNCHANGED <<now, should_stop, observed_stop, finished, error_signals,
                   progress_emits, loggerVars, threadVars, sideVars>>

\* VideoProcessingWorker.stop, called by the caller while the thread runs
Stop ==
    /\ wpc # "done"
    /\ ~should_stop
    /\ should_stop' = TRUE
    /\ SetTracker(AddWarning(progress_tracker, "Processing stopped by user request", now))
    /\ UNCHANGED <<now, wpc, observed_stop, finished, error_signals,
                   progress_emits, loggerVars, threadVars, sideVars>>

InitWorker ==
    /\ now = 0
    /\ progress_tracker = WorkerTracker
    /\ cb_calls = <<>>
    /\ escaped = FALSE
    /\ last_call = NoCall
    /\ ops = 0
    /\ wpc = "start"
    /\ should_stop = FALSE
    /\ observed_stop = FALSE
    /\ finished = <<>>
    /\ error_signals = <<>>
    /\ progress_emits = <<>>
    /\ InitLoggerIdle
    /\ InitSideIdle
    /\ posix \in BOOLEAN

NextWorker ==
    \/ Tick
    \/ Stop
    \/ WBegin
    \/ \E k \in 1..4 : WCheck(k)
    \/ WLoad
    \/ WSort
    \/ WPrepare
    \/ WEncodeBegin
    \/ WEncodeLoad
    \/ WEncodeWrite
    \/ WEncodeEnd
    \/ WFinally

SpecWorker == InitWorker /\ [][NextWorker]_vars

(***************************************************************************)
(* SpecTiming: one tracker without callbacks is initialized and then       *)
(* driven through start_timing, update_progress and complete_operation in  *)
(* any order while the clock advances; history records the calls           *)
(***************************************************************************)
TimingTick ==
    /\ now < MaxClock
    /\ now' = now + 1
    /\ UNCHANGED <<trackerVars, workerVars, loggerVars, threadVars, sideVars>>

\* A tracker call at the current clock, recorded in the history; the
\* operation ends with complete_operation
TimedCall(t, op, step) ==
    /\ Len(history) < MaxCalls
    /\ history # <<>> => history[Len(history)].op # "complete_operation"
    /\ progress_tracker' = t
    /\ history' = Append(history, [op |-> op, step |-> step, time |-> now])
    /\ UNCHANGED <<now, cb_calls, escaped, last_call, ops, workerVars, loggerVars,
                   threadVars, encoderVars, callVars, state_file, restored, runVars>>

\* tracker.initialize(total_steps=..., operation_name=...) on the new tracker
MInitialize ==
    /\ history = <<>>
    /\ progress_tracker.total_steps = 0
    /\ progress_tracker' = Initialize(progress_tracker, MaxStep, "op")
    /\ UNCHANGED <<now, cb_calls, escaped, last_call, ops, workerVars, loggerVars,
                   threadVars, sideVars>>

MStartTiming == TimedCall(StartTiming(progress_tracker, now), "start_timing", 0)

MUpdateProgress ==
    \E step \in 0..MaxStep :
        TimedCall(UpdateProgress(progress_tracker, step, StepMessage(step), now).tracker,
                  "update_progress", step)

MCompleteOperation ==
    TimedCall(CompleteOperation(progress_tracker, now), "complete_operation", 0)

InitTiming ==
    /\ now = 0
    /\ InitTrackerIdle
    /\ InitWorkerIdle
    /\ InitLoggerIdle
    /\ InitSideIdle
    /\ posix = TRUE

NextTiming ==
    \/ TimingTick
    \/ MInitialize
    \/ MStartTiming
    \/ MUpdateProgress
    \/ MCompleteOperation

SpecTiming == InitTiming /\ [][NextTiming]_vars

(***************************************************************************)
(* SpecPersist: a tracker without callbacks is used, saved with save_state *)
(* and loaded into a second tracker with load_state; from then on the same *)
(* calls are made on both trackers at the same clock                       *)
(***************************************************************************)
\* One call made on the original and, once it is loaded, on the second
\* tracker: t and u are the two trackers after the call
PersistCall(t, u) ==
    /\ ops < MaxPersistOps
    /\ state_file.saved => restored.loaded
    /\ ops' = ops + 1
    /\ progress_tracker' = t
    /\ restored' = IF restored.loaded THEN [restored EXCEPT !.tracker = u] ELSE restored
    /\ UNCHANGED <<now, cb_calls, escaped, last_call, workerVars, loggerVars, threadVars,
                   encoderVars, callVars, state_file, history, runVars>>

PInitialize ==
    PersistCall(Initialize(progress_tracker, MaxStep, "op"),
                Initialize(restored.tracker, MaxStep, "op"))

PStartTiming ==
    PersistCall(StartTiming(progress_tracker, now), StartTiming(restored.tracker, now))

PUpdateProgress ==
    \E step \in 1..MaxStep :
        PersistCall(UpdateProgress(progress_tracker, step, StepMessage(step), now).tracker,
                    UpdateProgress(restored.tracker, step, StepMessage(step), now).tracker)

PCompleteOperation ==
    PersistCall(CompleteOperation(progress_tracker, now),
                CompleteOperation(restored.tracker, now))

PAddPerformanceMetric ==
    PersistCall(AddPerformanceMetric(progress_tracker, "batch_size", 100),
                AddPerformanceMetric(restored.tracker, "batch_size", 100))

PAddError ==
    PersistCall(AddError(progress_tracker, "Failed item", "ProcessingError", now),
                AddError(restored.tracker, "Failed item", "ProcessingError", now))

\* tracker.save_state(save_path)
PSaveState ==
    /\ ~state_file.saved
    /\ state_file' = SaveState(progress_tracker, now)
    /\ UNCHANGED <<now, trackerVars, workerVars, loggerVars, threadVars,
                   encoderVars, callVars, restored, history, runVars>>

\* tracker2 = ProgressTracker(); tracker2.load_state(save_path)
PLoadState ==
    /\ state_file.saved
    /\ ~restored.loaded
    /\ restored' = [loaded |-> TRUE, tracker |-> LoadState(restored.tracker, state_file)]
    /\ UNCHANGED <<now, trackerVars, workerVars, loggerVars, threadVars,
                   encoderVars, callVars, state_file, history, runVars>>

InitPersist ==
    /\ now = 0
    /\ InitTrackerIdle
    /\ InitWorkerIdle
    /\ InitLoggerIdle
    /\ InitSideIdle
    /\ posix = TRUE

NextPersist ==
    \/ Tick
    \/ PInitialize
    \/ PStartTiming
    \/ PUpdateProgress
    \/ PCompleteOperation
    \/ PAddPerformanceMetric
    \/ PAddError
    \/ PSaveState
    \/ PLoadState

SpecPersist == InitPersist /\ [][NextPersist]_vars

(***************************************************************************)
(* SpecEncoder: one create_video call on a VideoEncoder, with arguments,   *)
(* files and backend outcomes of every kind, in three steps                *)
(***************************************************************************)
\* What an image path can point at: a readable image, no file, a file of 0
\* bytes, a file Image.open fails on
ImageKinds == {"ok", "missing", "empty", "corrupt"}

\* The image lists of length 0..MaxImages
ImageLists == UNION {[1..n -> ImageKinds] : n \in 0..MaxImages}

\* Output paths: supported and unsupported extensions, no extension, a
\* relative path starting with "..", and the bare name ".mp4"
OutputPaths ==
    {<<"/", "v", "/", "a", ".", "m", "p", "4">>,
     <<"/", "v", "/", "a", ".", "M", "O", "V">>,
     <<"/", "v", "/", "a", ".", "t", "x", "t">>,
     <<"/", "v", "/", "a">>,
     <<".", ".", "/", "a", ".", "m", "p", "4">>,
     <<".", "m", "p", "4">>}

\* Frame rates: below, inside and above 1..120
FrameRates == {0, 15, 121}

\* Quality presets: a known one and an unknown one
Qualities == {"medium", "ultra"}

\* encoder.create_video(image_files, output_path, fps, quality=...) is called:
\* the input checks, mkdir and the checks of the image files
ECreateVideo ==
    \E moviepy_available \in BOOLEAN, files \in ImageLists, output_path \in OutputPaths,
       fps \in FrameRates, quality \in Qualities :
        LET call == EncoderCall(moviepy_available, files, output_path, fps, quality)
            validated == CreateVideoValidate(call)
        IN  /\ video_encoder.pc = "idle"
            /\ video_encoder' = IF validated.pc = "checking"
                                THEN CreateVideoCheckFiles(validated)
                                ELSE validated
            /\ UNCHANGED <<now, trackerVars, workerVars, loggerVars, threadVars,
                           persistVars, callVars, runVars>>

\* create_video reads the images and builds the clip
ELoadImages ==
    \E clip_results \in ClipResults :
        /\ video_encoder.pc = "loading"
        /\ video_encoder' = CreateVideoLoadImages(video_encoder, clip_results)
        /\ UNCHANGED <<now, trackerVars, workerVars, loggerVars, threadVars,
                       persistVars, callVars, runVars>>

\* create_video writes the video file and returns
EWriteVideo ==
    \E write_results \in WriteResults :
        /\ video_encoder.pc = "encoding"
        /\ video_encoder' = CreateVideoWrite(video_encoder, write_results)
        /\ UNCHANGED <<now, trackerVars, workerVars, loggerVars, threadVars,
                       persistVars, callVars, runVars>>

InitEncoder ==
    /\ now = 0
    /\ InitTrackerIdle
    /\ InitWorkerIdle
    /\ InitLoggerIdle
    /\ InitSideIdle
    /\ posix = TRUE

NextEncoder ==
    \/ ECreateVideo
    \/ ELoadImages
    \/ EWriteVideo

SpecEncoder == InitEncoder /\ [][NextEncoder]_vars

(***************************************************************************)
(* SpecSettings: one VideoEncoder.validate_settings call on settings of    *)
(* every kind                                                              *)
(***************************************************************************)
\* Frame rates below, inside and above the accepted range 1..120
SettingsFrameRates == -1..MaxFrameRate

\* Quality presets: the three known ones, an unknown one, the empty string
SettingsQualities == {"low", "medium", "high", "ultra", ""}

\* Codecs: the known ones, 'auto', an unknown one, the empty string
SettingsCodecs == SUPPORTED_CODECS \cup {"auto", "h264", ""}

\* encoder.validate_settings(fps, quality, codec)
SValidateSettings ==
    \E fps \in SettingsFrameRates, quality \in SettingsQualities, codec \in SettingsCodecs :
        /\ settings_call.pc = "idle"
        /\ settings_call' = [pc |-> "returned", fps |-> fps, quality |-> quality,
                             codec |-> codec,
                             result |-> ValidateSettingsReport(fps, quality, codec)]
        /\ UNCHANGED <<now, trackerVars, workerVars, loggerVars, threadVars, encoderVars,
                       persistVars, runVars, loader_call, sort_call, path_call, auxVars>>

InitSettings ==
    /\ now = 0
    /\ InitTrackerIdle
    /\ InitWorkerIdle
    /\ InitLoggerIdle
    /\ InitSideIdle
    /\ posix = TRUE

NextSettings == SValidateSettings

SpecSettings == InitSettings /\ [][NextSettings]_vars

(***************************************************************************)

(* SpecLoader: one ImageLoader.load_and_validate_images call on a          *)
(* directory of every kind                                                 *)
(***************************************************************************)
\* File names: supported extensions in lower and upper case, an unsupported
\* extension, a name that is only an extension, no extension, and a name
\* with a superscript digit before a decimal
LoaderNames ==
    {<<"a", ".", "j", "p", "g">>,
     <<"b", ".", "P", "N", "G">>,
     <<"c", ".", "t", "x", "t">>,
     <<".", "p", "n", "g">>,
     <<"d">>,
     <<"sup2", "1", ".", "d", "c", "m">>}

DirEntryKinds == {"image", "empty", "corrupt", "dir"}

\* The entry lists of at most MaxDirEntries entries with different names
DirEntries ==
    {entries \in UNION {[1..n -> [name : LoaderNames, kind : DirEntryKinds]] : n \in 0..MaxDirEntries} :
        \A i, j \in DOMAIN entries : i # j => entries[i].name # entries[j].name}

\* A directory that can be listed, and the three that cannot
Directories ==
    {[status |-> "ok", entries |-> entries] : entries \in DirEntries}
        \cup {[status |-> status, entries |-> <<>>] : status \in {"missing", "not_dir", "unreadable"}}

\* sort_method: the three names the loader knows and one it does not
SortMethods == {"natural", "alphabetical", "date", "modification_date"}

\* The files of the directory were all written at the same time
LoaderFs == [mtime |-> [name \in LoaderNames |-> 0], stat_fails |-> {}]

\* loader.load_and_validate_images(directory, sort_method)
LLoadAndValidateImages ==
    \E directory \in Directories, sort_method \in SortMethods :
        /\ loader_call.pc = "idle"
        /\ loader_call' =
               LET result == LoadAndValidateImages(directory, sort_method, LoaderFs)
               IN  [pc |-> IF result.raised THEN "raised" ELSE "returned",
                    directory |-> directory, sort_method |-> sort_method, result |-> result]
        /\ UNCHANGED <<now, trackerVars, workerVars, loggerVars, threadVars, encoderVars,
                       persistVars, runVars, settings_call, sort_call, path_call, auxVars>>

InitLoader ==
    /\ now = 0
    /\ InitTrackerIdle
    /\ InitWorkerIdle
    /\ InitLoggerIdle
    /\ InitSideIdle
    /\ posix = TRUE

NextLoader == LLoadAndValidateImages

SpecLoader == InitLoader /\ [][NextLoader]_vars

(***************************************************************************)

(* SpecSort: one list of files ordered by a strategy chosen by name, in    *)
(* the loader or in the worker, and then the same files ordered again from *)
(* another arrangement of the list                                         *)
(***************************************************************************)
\* File names: an embedded 2, an embedded 10, the first name in upper case,
\* the first name with a leading zero, and a name with a superscript digit
\* before a decimal
SortNames ==
    {<<"a", "2", ".", "j", "p", "g">>,
     <<"a", "1", "0", ".", "j", "p", "g">>,
     <<"A", "2", ".", "j", "p", "g">>,
     <<"a", "0", "2", ".", "j", "p", "g">>,
     <<"sup2", "1", ".", "j", "p", "g">>}

\* The lists of at most MaxFiles files; a file may occur more than once
FileLists == UNION {[1..n -> SortNames] : n \in 0..MaxFiles}

\* Modification times: all files written at the same time, or the files
\* written one after the other; stat() works on every file, or fails on one
Filesystems ==
    {[mtime |-> [name \in SortNames |-> 0], stat_fails |-> {}],
     [mtime |-> [name \in SortNames |-> Len(name) + Ord(name[1])], stat_fails |-> {}],
     [mtime |-> [name \in SortNames |-> 0], stat_fails |-> {<<"a", "1", "0", ".", "j", "p", "g">>}]}

\* Strategy names: those the loader knows, the one the worker knows for the
\* modification time, and an unknown one
StrategyNames == {"natural", "alphabetical", "date", "modification_date", "random"}

\* The ordering done by the loader or by the worker under a strategy name
OrderBy(component, strategy, files, fs) ==
    IF component = "loader" THEN LoaderSort(strategy, files, fs)
    ELSE SortImages(strategy, files, fs)

\* The arrangements of a list
Arrangements(files) ==
    {other \in [DOMAIN files -> Range(files)] :
        \A name \in Range(files) :
            Cardinality({i \in DOMAIN files : other[i] = name})
                = Cardinality({i \in DOMAIN files : files[i] = name})}

\* sorted_files = <ordering>(files): the list is ordered once
SSort ==
    \E component \in {"loader", "worker"}, strategy \in StrategyNames,
       files \in FileLists, fs \in Filesystems :
        /\ sort_call.pc = "idle"
        /\ sort_call' =
               LET result == OrderBy(component, strategy, files, fs)
               IN  [pc |-> IF result.raised THEN "raised" ELSE "returned",
                    component |-> component, strategy |-> strategy, fs |-> fs,
                    input |-> files, input_after |-> files, output |-> result.files,
                    again |-> FALSE, other_input |-> <<>>, other_raised |-> FALSE,
                    other_output |-> <<>>]
        /\ UNCHANGED <<now, trackerVars, workerVars, loggerVars, threadVars, encoderVars,
                       persistVars, runVars, settings_call, loader_call, path_call, auxVars>>

\* The same files are ordered again from another arrangement of the list
SSortAgain ==
    /\ sort_call.pc \in {"returned", "raised"}
    /\ ~sort_call.again
    /\ \E other \in Arrangements(sort_call.input) :
           sort_call' =
               LET result == OrderBy(sort_call.component, sort_call.strategy, other,
                                     sort_call.fs)
               IN  [sort_call EXCEPT !.again = TRUE, !.other_input = other,
                                     !.other_raised = result.raised,
                                     !.other_output = result.files]
    /\ UNCHANGED <<now, trackerVars, workerVars, loggerVars, threadVars, encoderVars,
                   persistVars, runVars, settings_call, loader_call, path_call, auxVars>>

InitSort ==
    /\ now = 0
    /\ InitTrackerIdle
    /\ InitWorkerIdle
    /\ InitLoggerIdle
    /\ InitSideIdle
    /\ posix = TRUE

NextSort ==
    \/ SSort
    \/ SSortAgain

SpecSort == InitSort /\ [][NextSort]_vars

(***************************************************************************)

(* SpecPath: one _generate_output_path call on a worker with a source      *)
(* folder and settings of every kind                                       *)
(***************************************************************************)
\* Source folders: below a directory, below the root, relative
SourceFolders == {<<"/", "d", "/", "s">>, <<"/", "s">>, <<"s">>}

\* settings['output_filename']: none, names with each video extension in
\* lower or upper case, with another extension and with no extension
OutputFilenames ==
    {<<>>,
     <<"a", ".", "m", "p", "4">>, <<"a", ".", "M", "P", "4">>,
     <<"a", ".", "a", "v", "i">>, <<"a", ".", "A", "V", "I">>,
     <<"a", ".", "m", "o", "v">>, <<"a", ".", "m", "k", "v">>,
     <<"a", ".", "t", "x", "t">>, <<"a">>, <<"a", ".">>}

\* settings['output_directory']: none, or a directory
OutputDirectories == {<<>>, <<"/", "o">>, <<"o", "/", "v">>}

\* time.strftime('%Y%m%d_%H%M%S') at two moments, shortened to the seconds
Timestamps == {<<"0", "1">>, <<"0", "2">>}

\* self._generate_output_path()
PGenerateOutputPath ==
    \E folder_path \in SourceFolders, output_filename \in OutputFilenames,
       output_directory \in OutputDirectories, timestamp \in Timestamps :
        /\ path_call.pc = "idle"
        /\ path_call' =
               LET settings == [output_filename |-> output_filename,
                                output_directory |-> output_directory]
               IN  [pc |-> "returned", folder_path |-> folder_path, settings |-> settings,
                    timestamp |-> timestamp,
                    result |-> GenerateOutputPath(folder_path, settings, timestamp)]
        /\ UNCHANGED <<now, trackerVars, workerVars, loggerVars, threadVars, encoderVars,
                       persistVars, runVars, settings_call, loader_call, sort_call, auxVars>>

InitPath ==
    /\ now = 0
    /\ InitTrackerIdle
    /\ InitWorkerIdle
    /\ InitLoggerIdle
    /\ InitSideIdle
    /\ posix = TRUE

NextPath == PGenerateOutputPath

SpecPath == InitPath /\ [][NextPath]_vars

(***************************************************************************)

(* SpecValidate: one ImageLoader.validate_files call on a list of paths of *)
(* every kind: files named twice, files that are not there, files whose    *)
(* stat() raises OSError ("inaccessible")                                  *)
(***************************************************************************)
\* The paths handed to validate_files
ValidateNames ==
    {<<"a", ".", "j", "p", "g">>,
     <<"b", ".", "P", "N", "G">>,
     <<"c", ".", "t", "x", "t">>}

\* What a path can point at
FileKinds == {"image", "empty", "corrupt", "dir", "inaccessible", "missing"}

\* The filesystems: every path with every kind of content
ValidateDirectories ==
    {LET present == SelectSeq(<< <<"a", ".", "j", "p", "g">>, <<"b", ".", "P", "N", "G">>,
                                 <<"c", ".", "t", "x", "t">> >>,
                              LAMBDA name : kinds[name] # "missing")
     IN  [status |-> "ok",
          entries |-> [i \in DOMAIN present |-> [name |-> present[i], kind |-> kinds[present[i]]]]] :
     kinds \in [ValidateNames -> FileKinds]}

\* The lists of at most MaxFiles paths, repetitions included
ValidatePathLists == UNION {[1..n -> ValidateNames] : n \in 0..MaxFiles}

\* loader.validate_files(file_paths)
VValidateFiles ==
    /\ validate_call.pc = "idle"
    /\ \E directory \in ValidateDirectories, file_paths \in ValidatePathLists :
        /\ validate_call' = [pc |-> "returned", file_paths |-> file_paths,
                             directory |-> directory,
                             result |-> ValidateFiles(file_paths, directory)]
        /\ UNCHANGED <<now, trackerVars, workerVars, loggerVars, threadVars, encoderVars,
                       persistVars, runVars, settings_call, loader_call, sort_call, path_call,
                       report_call, loggers>>

InitValidate ==
    /\ now = 0
    /\ InitTrackerIdle
    /\ InitWorkerIdle
    /\ InitLoggerIdle
    /\ InitSideIdle
    /\ posix = TRUE

NextValidate == VValidateFiles

SpecValidate == InitValidate /\ [][NextValidate]_vars

(***************************************************************************)

(* SpecRecommend: one caller records entries through the handle_* methods  *)
(* and then calls generate_error_report                                    *)
(***************************************************************************)
\* The calls that record an entry: handle_file_error with a FileNotFoundError
\* ("No such file or directory") and with an OSError whose text does not
\* name a file ("Input/output error"), handle_image_error ("broken data
\* stream") and handle_permission_error ("Permission denied")
ReportedKinds ==
    {[error_type |-> "FileNotFoundError", mentions |-> {"file"}],
     [error_type |-> "FileOperationError", mentions |-> {}],
     [error_type |-> "ImageProcessingError", mentions |-> {}],
     [error_type |-> "PermissionError", mentions |-> {"permission"}]}

\* handle_file_error / handle_image_error / handle_permission_error
RHandleError ==
    /\ report_call.pc = "idle"
    /\ count[Caller] < MaxReported
    /\ \E k \in ReportedKinds :
        LET e == ErrorInfoWithMessage(<<Caller, count[Caller] + 1>>, k.error_type,
                                      "error", k.mentions)
        IN  /\ AddErrorCall(e)
            /\ submitted' = submitted \cup {e.id}
            /\ count' = [count EXCEPT ![Caller] = @ + 1]
            /\ cur' = [cur EXCEPT ![Caller] = e]
            /\ UNCHANGED <<now, trackerVars, workerVars, sideVars, posix, lock, pc, rpc, report>>

\* error_logger.generate_error_report()
RGenerateErrorReport ==
    /\ report_call.pc = "idle"
    /\ report_call' = [pc |-> "returned", result |-> GenerateErrorReport(error_logger)]
    /\ UNCHANGED <<now, trackerVars, workerVars, loggerVars, threadVars, encoderVars,
                   persistVars, runVars, settings_call, loader_call, sort_call, path_call,
                   validate_call, loggers>>

InitRecommend ==
    /\ now = 0
    /\ InitTrackerIdle
    /\ InitWorkerIdle
    /\ InitLoggerIdle
    /\ InitSideIdle
    /\ posix = TRUE

NextRecommend ==
    \/ RHandleError
    \/ RGenerateErrorReport

SpecRecommend == InitRecommend /\ [][NextRecommend]_vars

(***************************************************************************)

(* SpecInstances: a process constructs two ErrorLogger instances, each on  *)
(* a log file of its own, and appends entries to them in any order         *)
(***************************************************************************)
\* The entries instance i holds
InstanceEntries(i) == IF loggers[i].created THEN AllErrors(loggers[i].el) ELSE <<>>

\* ErrorLogger(log_file=...) for instance i
INew(i) ==
    /\ ~loggers[i].created
    /\ loggers' = SetupFileLogging(loggers, i)
    /\ UNCHANGED <<now, trackerVars, workerVars, loggerVars, threadVars, encoderVars,
                   persistVars, runVars, settings_call, loader_call, sort_call, path_call,
                   validate_call, report_call>>

\* log_warning / log_error / log_critical / handle_generic_error on instance i
IAddError(i) ==
    /\ loggers[i].created
    /\ Len(InstanceEntries(1)) + Len(InstanceEntries(2)) < MaxEntries
    /\ \E k \in EntryKinds \cup StackKinds :
        LET e == ErrorInfo(<<i, Len(InstanceEntries(i)) + 1>>, k.error_type,
                           k.severity, k.stack_trace)
        IN  loggers' = InstanceAddError(loggers, i, e, now, posix)
    /\ UNCHANGED <<now, trackerVars, workerVars, loggerVars, threadVars, encoderVars,
                   persistVars, runVars, settings_call, loader_call, sort_call, path_call,
                   validate_call, report_call>>

InitInstances ==
    /\ now = 0
    /\ InitTrackerIdle
    /\ InitWorkerIdle
    /\ InitLoggerIdle
    /\ InitSideIdle
    /\ posix = TRUE

NextInstances ==
    \E i \in Instances :
        \/ INew(i)
        \/ IAddError(i)

SpecInstances == InitInstances /\ [][NextInstances]_vars

(***************************************************************************)

(* SpecNotes: a tracker with callbacks is taken through one operation      *)
(* (initialize, start_timing, update_progress for each step,               *)
(* complete_operation) while the caller attaches errors, warnings and      *)
(* performance metrics at any point                                        *)
(***************************************************************************)
\* The entries attached so far by the caller
NotesAttached ==
    Cardinality({i \in DOMAIN progress_tracker.errors :
                     progress_tracker.errors[i].type = "ProcessingError"})
        + Len(progress_tracker.warnings) + Len(progress_tracker.performance_metrics)

\* tracker.initialize(total_steps, "op")
NInitialize ==
    /\ ops = 0
    /\ ops' = 1
    /\ TrackerStep(Initialize(progress_tracker, MaxStep, "op"), "initialize", MaxStep, "")
    /\ UNCHANGED <<cb_calls, escaped>>

\* tracker.start_timing()
NStartTiming ==
    /\ ops = 1
    /\ ops' = 2
    /\ TrackerStep(StartTiming(progress_tracker, now), "start_timing", 0, "")
    /\ UNCHANGED <<cb_calls, escaped>>

\* tracker.update_progress(step, message) for the steps 1, 2, ... in turn
NUpdateProgress ==
    /\ ops \in 2..(MaxStep + 1)
    /\ ops' = ops + 1
    /\ LET step == ops - 1
           r == UpdateProgress(progress_tracker, step, StepMessage(step), now)
       IN  /\ TrackerStep(r.tracker, "update_progress", step, StepMessage(step))
           /\ cb_calls' = r.calls
           /\ escaped' = r.escaped

\* tracker.complete_operation()
NCompleteOperation ==
    /\ ops = MaxStep + 2
    /\ ops' = ops + 1
    /\ TrackerStep(CompleteOperation(progress_tracker, now), "complete_operation", 0, "")
    /\ UNCHANGED <<cb_calls, escaped>>

\* tracker.add_error("Failed item", "ProcessingError")
NAddError ==
    /\ NotesAttached < MaxNotes
    /\ TrackerStep(AddError(progress_tracker, "Failed item", "ProcessingError", now),
                   "add_error", 0, "Failed item")
    /\ UNCHANGED <<cb_calls, escaped, ops>>

\* tracker.add_warning("Slow item")
NAddWarning ==
    /\ NotesAttached < MaxNotes
    /\ TrackerStep(AddWarning(progress_tracker, "Slow item", now), "add_warning", 0, "Slow item")
    /\ UNCHANGED <<cb_calls, escaped, ops>>

\* tracker.add_performance_metric("batch_size", value)
NAddPerformanceMetric ==
    /\ NotesAttached < MaxNotes
    /\ \E value \in {100, 200} :
        TrackerStep(AddPerformanceMetric(progress_tracker, "batch_size", value),
                    "add_performance_metric", 0, "batch_size")
    /\ UNCHANGED <<cb_calls, escaped, ops>>

InitNotes ==
    /\ now = 0
    /\ InitTrackerIdle
    /\ InitWorkerIdle
    /\ InitLoggerIdle
    /\ InitSideIdle
    /\ posix = TRUE

NextNotes ==
    \/ Tick
    \/ TRegisterCallback
    \/ NInitialize
    \/ NStartTiming
    \/ NUpdateProgress
    \/ NCompleteOperation
    \/ NAddError
    \/ NAddWarning
    \/ NAddPerformanceMetric

SpecNotes == InitNotes /\ [][NextNotes]_vars

(***************************************************************************)

(* SpecReenter: threads append to one ErrorLogger whose error callbacks    *)
(* may call get_error_summary on the same ErrorLogger                      *)
(***************************************************************************)
\* The position of a thread inside its i-th callback, at the `with
\* self._lock:` of the operation the callback calls
CallbackPc(i) == <<"callback1", "callback2", "callback3", "callback4">>[i]

CallbackPcs == {CallbackPc(i) : i \in 1..4}

\* for callback in self.error_callbacks: callback(asdict(error_info)), from
\* the i-th callback on, up to the first callback that calls back into the
\* ErrorLogger: what has been delivered, and the callback the loop is in (0
\* when the loop is over)
RECURSIVE NotifyUntilReentry(_, _, _, _)
NotifyUntilReentry(cbs, e, n, i) ==
    IF i > Len(cbs) \/ ~ShouldNotify(e)
    THEN [notified |-> n, at |-> 0]
    ELSE LET n1 == [n EXCEPT ![i] = Append(@, e.id)]
         IN  IF cbs[i].reenters
             THEN [notified |-> n1, at |-> i]
             ELSE NotifyUntilReentry(cbs, e, n1, i + 1)

\* register_error_callback, before the first entry is submitted
XRegisterErrorCallback ==
    /\ Len(error_logger.error_callbacks) < MaxErrCallbacks
    /\ submitted = {}
    /\ \E reenters \in BOOLEAN :
        error_logger' = RegisterErrorCallback(error_logger,
                                              [raises |-> FALSE, reenters |-> reenters])
    /\ UNCHANGED <<now, trackerVars, workerVars, sideVars, log_fs, notified, submitted,
                   threadVars>>

\* with self._lock: in _add_error, where the entry is then stored and the
\* callbacks are called, and in get_error_summary called by a callback, which
\* then returns to the callback loop
Acquire(t) ==
    /\ pc[t] \in {"acquire"} \cup CallbackPcs
    /\ CanAcquire(t)
    /\ IF pc[t] = "acquire"
       THEN LET r == NotifyUntilReentry(error_logger.error_callbacks, cur[t], notified, 1)
            IN  /\ lock' = t
                /\ error_logger' = StoreEntry(error_logger, cur[t])
                /\ notified' = r.notified
                /\ pc' = [pc EXCEPT ![t] = IF r.at = 0 THEN "rotate_check" ELSE CallbackPc(r.at)]
       ELSE LET i == CHOOSE j \in 1..4 : CallbackPc(j) = pc[t]
                r == NotifyUntilReentry(error_logger.error_callbacks, cur[t], notified, i + 1)
            IN  /\ lock' = NoThread
                /\ notified' = r.notified
                /\ pc' = [pc EXCEPT ![t] = IF r.at = 0 THEN "rotate_check" ELSE CallbackPc(r.at)]
                /\ UNCHANGED error_logger
    /\ UNCHANGED <<now, trackerVars, workerVars, sideVars, log_fs, submitted,
                   posix, cur, count, rpc, report>>

InitReenter ==
    /\ now = 0
    /\ InitTrackerIdle
    /\ InitWorkerIdle
    /\ InitLoggerIdle
    /\ InitSideIdle
    /\ posix = TRUE

NextReenter ==
    \/ XRegisterErrorCallback
    \/ \E t \in Threads : Submit(t)
    \/ \E t \in Threads : Acquire(t)
    \/ \E t \in Threads : RotateCheck(t)
    \/ \E t \in Threads : Rename(t)
    \/ \E t \in Threads : Reopen(t)
    \/ \E t \in Threads : Emit(t)

SpecReenter == InitReenter /\ [][NextReenter]_vars

(***************************************************************************)

(* Properties of the ErrorLogger                                           *)
(***************************************************************************)
AllRecorded ==
    error_logger.errors \o error_logger.warnings \o error_logger.critical_errors

Occurrences(seq, x) == Cardinality({i \in DOMAIN seq : seq[i] = x})

AllThreadsIdle == \A t \in Threads : pc[t] = "idle"

\* C5: when the appending threads have all returned, the three collections
\* together hold each submitted entry exactly once: as many entries as were
\* submitted, and every submitted id among them.
C5_NoEntryLostOrDuplicated ==
    AllThreadsIdle =>
        /\ Len(AllRecorded) = Cardinality(submitted)
        /\ {AllRecorded[i].id : i \in DOMAIN AllRecorded} = submitted

\* C5 witness: every thread has appended, all entries are in, no append in flight
C5_Witness ==
    /\ AllThreadsIdle
    /\ Cardinality(submitted) = MaxEntries
    /\ \A t \in Threads : count[t] > 0
    /\ error_logger.warnings # <<>>
    /\ error_logger.critical_errors # <<>>

\* C6 (as claimed): every entry whose append has returned is found in the live
\* log file or in one of the backup files.
C6_NoLogEntryLost ==
    submitted \subseteq IdsOnDisk(log_fs)

\* C7: rotation and the write that follows it run under the lock: a thread
\* between the size test and the write holds the lock, a thread about to write
\* finds exactly one open handler on an existing file, and the logger is
\* without a handler only while the lock holder is rotating.
C7_RotationUnderLock ==
    /\ \A t \in Threads :
          /\ pc[t] \in {"rotate_check", "rename", "reopen", "emit"} => lock = t
          /\ pc[t] = "emit" => log_fs.handlers = <<"open">> /\ log_fs.exists
    /\ log_fs.handlers = <<>> =>
          \E t \in Threads : lock = t /\ pc[t] \in {"rename", "reopen"}

\* C7 witness: one thread is rotating (handlers closed, file about to be
\* renamed) while another thread has submitted an entry and waits for the lock
C7_Witness ==
    \E t, u \in Threads :
        /\ t # u
        /\ pc[t] = "rename"
        /\ log_fs.handlers = <<>>
        /\ pc[u] = "acquire"

\* C8 (as claimed): a report built while other threads append is a consistent
\* snapshot: the summary counts equal the numbers of entries listed in the
\* detailed_errors, warnings and critical_errors sections.
C8_ReportConsistent ==
    rpc = "done" =>
        /\ report.summary.total_errors + report.summary.total_warnings = report.detailed
        /\ report.summary.total_warnings = report.warnings
        /\ report.summary.total_critical = report.critical_errors

\* C9: right after an append returns, each registered callback has been
\* notified of the entry exactly once if the entry is critical and not at all
\* otherwise, whether or not callbacks raise; a critical entry is in the
\* critical collection and its line is in the live log file.
C9_CriticalNotifiesEveryCallback ==
    LET e == cur[Caller]
    IN  e # IdleEntry =>
          /\ \A i \in 1..MaxErrCallbacks :
                Occurrences(notified[i], e.id) =
                    IF e.severity = "critical" /\ i <= Len(error_logger.error_callbacks)
                    THEN 1 ELSE 0
          /\ e.severity = "critical" =>
                /\ Occurrences(error_logger.critical_errors, e) = 1
                /\ \E i \in DOMAIN log_fs.live : log_fs.live[i].id = e.id

\* C9 witness: a critical append has returned with two callbacks registered,
\* the first of which raises, after an earlier non-critical append
C9_Witness ==
    /\ cur[Caller] # IdleEntry
    /\ cur[Caller].severity = "critical"
    /\ Len(error_logger.error_callbacks) >= 2
    /\ error_logger.error_callbacks[1].raises
    /\ error_logger.errors # <<>>
    /\ notified[2] # <<>>

(***************************************************************************)
(* Properties of the orchestrator and of the tracker it drives             *)
(***************************************************************************)
Terminal == {"completed", "failed"}

StoppedByUserMarker ==
    \E i \in DOMAIN progress_tracker.warnings :
        progress_tracker.warnings[i].message = "Processing stopped by user request"

\* C1 (as claimed): when run has returned, the completion notification
\* (processing_finished) has been emitted exactly once, whether or not the run
\* was cancelled.
C1_FinishedExactlyOnce ==
    wpc = "done" => Len(finished) = 1

\* C2 (as claimed): a run that ended after a stage-boundary check saw the
\* cancellation flag has tracker status "failed" and carries the
\* "stopped by user" marker.
C2_CancelledEndsFailed ==
    (wpc = "done" /\ observed_stop) =>
        /\ progress_tracker.status = "failed"
        /\ StoppedByUserMarker

\* C3 (as claimed): once the tracker's status is completed or failed, no step
\* changes it.
C3_TerminalAbsorbing ==
    [][progress_tracker.status \in Terminal =>
           progress_tracker'.status = progress_tracker.status]_vars

StepWithinTotal ==
    progress_tracker.current_step <= progress_tracker.total_steps

StepNeverDecreases ==
    [][last_call'.op = "update_progress" =>
           progress_tracker'.current_step >= progress_tracker.current_step]_vars

\* C4 (as claimed): in every reachable state of a tracker the current step is
\* at most the total number of steps, and no update_progress call lowers the
\* current step.
C4_StepBoundedAndMonotone ==
    []StepWithinTotal /\ StepNeverDecreases

RaisingCallbacks(t) ==
    Cardinality({i \in DOMAIN t.callbacks : t.callbacks[i].raises})

\* C10: right after update_progress(step, message) returns, no exception has
\* escaped; every registered callback, in registration order, got exactly one
\* call carrying the percentage, the message and the ETA of that update; one
\* CallbackError was appended per raising callback; and the tracker holds the
\* new step and message.
C10_CallbackFailuresContained ==
    LET t == progress_tracker
    IN  last_call.op = "update_progress" =>
          /\ ~escaped
          /\ Len(cb_calls) = Len(t.callbacks)
          /\ \A i \in DOMAIN cb_calls :
                /\ cb_calls[i].cb = t.callbacks[i].id
                /\ cb_calls[i].message = last_call.message
                /\ cb_calls[i].percentage =
                       (IF t.total_steps > 0
                        THEN [num |-> last_call.step * 100, den |-> t.total_steps]
                        ELSE [num |-> 0, den |-> 1])
                /\ cb_calls[i].eta = GetEstimatedTimeRemaining(t, t.last_update_time)
          /\ Len(t.errors) = last_call.errors_before + RaisingCallbacks(t)
          /\ \A j \in (last_call.errors_before + 1)..Len(t.errors) :
                t.errors[j].type = "CallbackError"
          /\ t.current_step = last_call.step
          /\ t.current_message = last_call.message

\* C10 witness: an update on a timed operation with two callbacks, the first
\* of which raised and the second of which was still called
C10_Witness ==
    /\ last_call.op = "update_progress"
    /\ Len(progress_tracker.callbacks) = 2
    /\ progress_tracker.callbacks[1].raises
    /\ ~progress_tracker.callbacks[2].raises
    /\ Len(cb_calls) = 2
    /\ progress_tracker.errors # <<>>
    /\ progress_tracker.total_steps > 0
    /\ progress_tracker.current_step > 0

(***************************************************************************)
(* Properties of the tracker's arithmetic                                  *)
(***************************************************************************)
\* The fraction f equals n/d
FractionEquals(f, n, d) == f.den # 0 /\ d # 0 /\ f.num * d = n * f.den

CurrentEta == GetEstimatedTimeRemaining(progress_tracker, now)

TimedOperation ==
    /\ Len(history) >= 2
    /\ history[1].op = "start_timing"
    /\ history[Len(history)].op = "complete_operation"
    /\ \A i \in 2..(Len(history) - 1) : history[i].op = "update_progress"

\* One timing per update, in order, each window running from its opening to
\* the next call, and consecutive windows contiguous
OneTimingPerStep ==
    LET timings == progress_tracker.step_timings
        n == Len(history) - 2
    IN  /\ Len(timings) = n
        /\ \A i \in 1..n :
              /\ timings[i].step_number = history[i + 1].step
              /\ timings[i].start_time = (IF i = 1 THEN history[1].time
                                          ELSE history[i + 1].time)
              /\ timings[i].end_time = history[i + 2].time
              /\ timings[i].duration = timings[i].end_time - timings[i].start_time
              /\ i > 1 => timings[i].start_time = timings[i - 1].end_time

\* C13 (as claimed): after any sequence start_timing, update_progress(s1), ...,
\* update_progress(sn), complete_operation the tracker holds exactly one timing
\* per step s1..sn in order, with the durations of contiguous windows.
C13_TimingPerStepAsClaimed ==
    TimedOperation => OneTimingPerStep

\* C13 (amended): the same for sequences whose steps are all at least 1 (step
\* numbers are 1-based), on a tracker newly constructed or initialized.
C13_TimingPerStep ==
    (TimedOperation /\ \A i \in 2..(Len(history) - 1) : history[i].step >= 1)
        => OneTimingPerStep

\* C13 witness: two updates at different times between start and completion
C13_Witness ==
    /\ TimedOperation
    /\ Len(history) = 4
    /\ history[2].step >= 1
    /\ history[3].step >= 1
    /\ history[1].time < history[3].time
    /\ history[3].time < history[4].time
    /\ Len(progress_tracker.step_timings) = 2
    /\ progress_tracker.step_timings[2].duration > 0

(***************************************************************************)
(* Properties of save_state / load_state                                   *)
(***************************************************************************)
\* The progress-state fields of two trackers agree
SameProgressState(t, u) ==
    /\ t.operation_id = u.operation_id
    /\ t.total_steps = u.total_steps
    /\ t.current_step = u.current_step
    /\ t.operation_name = u.operation_name
    /\ t.status = u.status
    /\ t.current_message = u.current_message
    /\ t.start_time = u.start_time
    /\ t.end_time = u.end_time
    /\ t.last_update_time = u.last_update_time
    /\ t.step_timings = u.step_timings
    /\ t.performance_metrics = u.performance_metrics
    /\ t.errors = u.errors
    /\ t.warnings = u.warnings

\* C14 (as claimed): the tracker loaded from a saved state has no callbacks,
\* equals the original on every progress-state field, and stays equal to it
\* under the same subsequent calls at the same clock.
C14_SaveLoadRoundTrip ==
    restored.loaded =>
        /\ restored.tracker.callbacks = <<>>
        /\ SameProgressState(progress_tracker, restored.tracker)

(***************************************************************************)
(* Properties of the three collections and of the summary                  *)
(***************************************************************************)
RECURSIVE SumOver(_, _)
SumOver(f, keys) ==
    IF keys = {} THEN 0
    ELSE LET k == CHOOSE x \in keys : TRUE IN f[k] + SumOver(f, keys \ {k})

\* The entries of a collection all have the severity, and were appended in
\* the order of their submission
HoldsInOrder(collection, severity) ==
    /\ \A i \in DOMAIN collection : collection[i].severity = severity
    /\ \A i, j \in DOMAIN collection : i < j => collection[i].id[2] < collection[j].id[2]

\* C15: every entry appended so far is stored exactly once, in the collection
\* of its severity and in submission order (the entry appended last is in its
\* own collection only), and get_error_summary gives total_warnings =
\* |warnings|, total_critical = |critical|, total_errors = |errors| +
\* |critical|, with per-type counts that sum to the number of stored entries.
C15_OneCollectionPerSeverity ==
    LET el == error_logger
        summary == GetErrorSummary(el)
        e == cur[Caller]
    IN  /\ HoldsInOrder(el.warnings, "warning")
        /\ HoldsInOrder(el.errors, "error")
        /\ HoldsInOrder(el.critical_errors, "critical")
        /\ \A id \in submitted :
              Cardinality({i \in DOMAIN AllRecorded : AllRecorded[i].id = id}) = 1
        /\ Len(AllRecorded) = Cardinality(submitted)
        /\ e # IdleEntry =>
              /\ Occurrences(el.warnings, e) = (IF e.severity = "warning" THEN 1 ELSE 0)
              /\ Occurrences(el.errors, e) = (IF e.severity = "error" THEN 1 ELSE 0)
              /\ Occurrences(el.critical_errors, e) = (IF e.severity = "critical" THEN 1 ELSE 0)
        /\ summary.total_warnings = Len(el.warnings)
        /\ summary.total_critical = Len(el.critical_errors)
        /\ summary.total_errors = Len(el.errors) + Len(el.critical_errors)
        /\ SumOver(summary.error_types, DOMAIN summary.error_types) = Len(AllRecorded)

\* C15 witness: all three collections are filled, one of them with two entries
\* of different types
C15_Witness ==
    /\ error_logger.warnings # <<>>
    /\ error_logger.critical_errors # <<>>
    /\ Len(error_logger.errors) = 2
    /\ error_logger.errors[1].error_type # error_logger.errors[2].error_type
    /\ Cardinality(submitted) = MaxSeqAppends

(***************************************************************************)
(* Properties of the run's completion notification                         *)
(***************************************************************************)
\* The messages of the notifications emitted after an exception
ExceptionMessages == {"Processing failed", "Video creation failed"}

StageFailed ==
    \/ valid_files = <<>>
    \/ exceptions # <<>>
    \/ video_encoder.pc = "returned" /\ ~video_encoder.result.success

\* C17: a notification with success = true carries the report and is emitted
\* only after all five steps ran, valid images were found, no stage raised and
\* the encoder returned success; a run that has returned after a stage failure
\* emitted exactly one notification, with success = false, a message and no
\* report.
C17_SuccessOnlyAfterAllStages ==
    /\ \A i \in DOMAIN finished :
          finished[i].success =>
              /\ finished[i].has_report
              /\ finished[i].report.steps_completed = TotalSteps
              /\ finished[i].report.status = "completed"
              /\ valid_files # <<>> /\ valid_files # NotLoaded
              /\ exceptions = <<>>
              /\ video_encoder.pc = "returned"
              /\ video_encoder.result.success
              /\ video_encoder.backend_calls > 0
    /\ (wpc = "done" /\ StageFailed) =>
          /\ Len(finished) = 1
          /\ ~finished[1].success
          /\ finished[1].message # ""
          /\ ~finished[1].has_report

\* C17 witness: a run has returned after the encoder returned success and the
\* success notification, with the final 100 percent, was emitted
C17_Witness ==
    /\ wpc = "done"
    /\ Len(finished) = 1
    /\ finished[1].success
    /\ video_encoder.result.success
    /\ 100 \in {progress_emits[i] : i \in DOMAIN progress_emits}

(***************************************************************************)
(* Properties of cancellation during the encode                            *)
(***************************************************************************)
\* The file I/O create_video has started: the output directory, the checks of
\* the image files, the images read, the calls of the backend
IoStarted ==
    <<video_encoder.dir_created, video_encoder.files_checked,
      video_encoder.images_read, video_encoder.backend_calls>>

\* C18 (as claimed): once the job has observed the cancellation flag, it
\* starts no further file I/O: no file check, no image read, no call of the
\* backend.
C18_NoIoAfterCancelObserved ==
    [][observed_stop => IoStarted' = IoStarted]_vars

(***************************************************************************)
(* Properties of create_video's input checks                               *)
(***************************************************************************)
\* create_video returned before any filesystem effect
NoFilesystemEffect ==
    /\ ~video_encoder.dir_created
    /\ video_encoder.files_checked = 0
    /\ video_encoder.images_read = 0
    /\ video_encoder.backend_calls = 0

\* The extension of the output path is one of mp4, avi, mov, mkv (in any case)
ExtensionSupported == Lower(PathSuffix(video_encoder.output_path)) \in SUPPORTED_FORMATS

\* C19 (as claimed, for an encoder whose MoviePy backend is available):
\* create_video called with an empty image list, or with an output path whose
\* extension is not one of mp4/avi/mov/mkv, returns success = false with the
\* error 'No images provided' or 'Unsupported output format', before any
\* filesystem effect: no directory created, no image file touched.
C19_FailFastOnBadInput ==
    (video_encoder.pc = "returned"
        /\ video_encoder.moviepy_available
        /\ (video_encoder.image_files = <<>> \/ ~ExtensionSupported)) =>
        /\ ~video_encoder.result.success
        /\ video_encoder.result.error \in
               {"No images provided for video creation", "Unsupported output format"}
        /\ NoFilesystemEffect

\* C20 (as claimed): create_video called with an fps outside 1..120 or with an
\* unknown quality preset returns a failure without creating the output
\* directory, reading an image or calling the backend.
C20_InvalidSettingsAbort ==
    (video_encoder.pc = "returned"
        /\ ~ValidateSettings(video_encoder.fps, video_encoder.quality)) =>
        /\ ~video_encoder.result.success
        /\ NoFilesystemEffect

(***************************************************************************)
(* Properties of settings validation                                       *)
(***************************************************************************)
InSeq(x, seq) == \E i \in DOMAIN seq : seq[i] = x

\* C21: validate_settings reports valid exactly when 1 <= fps <= 120 and the
\* quality is one of low, medium, high; a frame rate in 1..4 or 61..120 gives
\* a warning and no frame-rate error; a codec outside the known set plus
\* 'auto' gives a warning, never an error, and the result is valid or not
\* whatever the codec.
C21_SettingsValidation ==
    settings_call.pc = "returned" =>
        LET fps == settings_call.fps
            quality == settings_call.quality
            codec == settings_call.codec
            result == settings_call.result
        IN  /\ result.valid <=>
                   (1 <= fps /\ fps <= 120 /\ quality \in {"low", "medium", "high"})
            /\ (fps \in 1..4 \/ fps \in 61..120) =>
                   /\ InSeq("fps_very_low", result.warnings) \/ InSeq("fps_high", result.warnings)
                   /\ ~InSeq("fps_range", result.errors)
            /\ codec \notin {"libx264", "libx265", "mpeg4", "libvpx", "libvpx-vp9", "auto"} =>
                   /\ InSeq("codec_unsupported", result.warnings)
                   /\ ~InSeq("codec_unsupported", result.errors)
            /\ \A i \in DOMAIN result.errors : result.errors[i] \in {"fps_range", "unknown_quality"}

\* A call with a very low frame rate and an unknown codec returned valid,
\* with both warnings
C21_Witness ==
    /\ settings_call.pc = "returned"
    /\ settings_call.fps = 4
    /\ settings_call.codec = "h264"
    /\ settings_call.result.valid
    /\ settings_call.result.warnings = <<"fps_very_low", "codec_unsupported">>

(***************************************************************************)
(* Properties of the ImageLoader                                           *)
(***************************************************************************)
\* The call is over, by a return or by an exception
LoaderCallOver == loader_call.pc \in {"returned", "raised"}

\* The names of the directory's files with a supported extension, compared
\* case-insensitively, that are not of 0 bytes
SupportedNonEmptyFiles(directory) ==
    {directory.entries[i].name : i \in
        {k \in DOMAIN directory.entries :
            /\ directory.entries[k].kind \notin {"dir", "empty"}
            /\ Lower(PathSuffix(directory.entries[k].name)) \in
                   {<<".", "j", "p", "g">>, <<".", "j", "p", "e", "g">>, <<".", "p", "n", "g">>,
                    <<".", "d", "c", "m">>, <<".", "d", "i", "c", "o", "m">>}}}

\* The same without the files the content check rejects
SupportedIntactFiles(directory) ==
    {name \in SupportedNonEmptyFiles(directory) : EntryOf(directory, name).kind = "image"}

\* A list without repetitions
NoRepetition(seq) == \A i, j \in DOMAIN seq : i # j => seq[i] # seq[j]

SortCallOver == sort_call.pc \in {"returned", "raised"}

\* The number of times a file occurs in a list
Multiplicity(files, name) == Cardinality({i \in DOMAIN files : files[i] = name})

\* after holds the same files as before, each as many times
IsPermutation(after, before) ==
    /\ Len(after) = Len(before)
    /\ \A name \in Range(before) \cup Range(after) :
           Multiplicity(after, name) = Multiplicity(before, name)

\* C23: every ordering strategy, chosen by any name in the loader or in the
\* worker, returns a list with the same files as its input, each as many
\* times, and leaves the input list as it was.
C23_SortReturnsPermutation ==
    SortCallOver =>
        /\ sort_call.pc = "returned"
        /\ IsPermutation(sort_call.output, sort_call.input)
        /\ sort_call.input_after = sort_call.input

\* C24, for the calls that return: a strategy applied to two arrangements of
\* the same files gives the same sequence.
C24_SortDeterministicOnSet ==
    (sort_call.pc = "returned" /\ sort_call.again /\ ~sort_call.other_raised) =>
        sort_call.other_output = sort_call.output

\* The ordering was natural: the strategy named "natural", or the fallback
\* for a name the component does not know
NaturalStrategy ==
    \/ sort_call.strategy \in {"natural", "random"}
    \/ sort_call.component = "loader" /\ sort_call.strategy = "modification_date"
    \/ sort_call.component = "worker" /\ sort_call.strategy = "date"

\* C25: natural sort never fails on a list of names, and puts the name with
\* the smaller embedded number first: every a2.jpg, A2.jpg and a02.jpg
\* before every a10.jpg.
C25_NaturalSortTotal ==
    (SortCallOver /\ NaturalStrategy) =>
        /\ sort_call.pc = "returned"
        /\ \A i, j \in DOMAIN sort_call.output :
               (/\ sort_call.output[i] = <<"a", "1", "0", ".", "j", "p", "g">>
                /\ sort_call.output[j] \in {<<"a", "2", ".", "j", "p", "g">>,
                                            <<"A", "2", ".", "j", "p", "g">>,
                                            <<"a", "0", "2", ".", "j", "p", "g">>})
                   => j < i

(***************************************************************************)
(* Properties of the output path                                           *)
(***************************************************************************)
\* The custom filename has a video extension, in any letter case
HasVideoExtension(filename) ==
    Lower(PathSuffix(filename)) \in
        {<<".", "m", "p", "4">>, <<".", "a", "v", "i">>, <<".", "m", "o", "v">>,
         <<".", "m", "k", "v">>}

\* C26: without a custom filename the name is <folder>_video_<timestamp>.mp4;
\* a custom filename with a video extension (mp4, avi, mov, mkv, any case) is
\* used unchanged and any other gets .mp4 appended; the directory is the
\* output directory when one is given and the parent of the source folder
\* otherwise.
C26_OutputPathDerivation ==
    path_call.pc = "returned" =>
        LET filename == path_call.settings.output_filename
            directory == path_call.settings.output_directory
            name == IF filename = <<>>
                    THEN PathName(path_call.folder_path)
                             \o <<"_", "v", "i", "d", "e", "o", "_">> \o path_call.timestamp
                             \o <<".", "m", "p", "4">>
                    ELSE IF HasVideoExtension(filename) THEN filename
                    ELSE filename \o <<".", "m", "p", "4">>
        IN  /\ PathName(path_call.result) = name
            /\ PathParent(path_call.result) =
                   IF directory # <<>> THEN directory ELSE PathParent(path_call.folder_path)

(***************************************************************************)
(* Properties of clip construction and writing                             *)
(***************************************************************************)
\* Every construction of the list failed
AllFailed(attempts) == \A k \in DOMAIN attempts : ~attempts[k].ok

\* C27: the clip constructions are made in the order arrays+durations,
\* arrays+fps, paths+durations, composite; a construction is made only when
\* all constructions before it failed, so none is made after one that worked;
\* the clip written is that of the first construction that worked; when all
\* four failed, create_video returns a failure whose message names the
\* failure of each of the four.
C27_ClipChainStopsAtFirstSuccess ==
    LET attempts == video_encoder.clip_attempts
        order == <<"arrays+durations", "arrays+fps", "paths+durations", "composite">>
    IN  /\ Len(attempts) <= 4
        /\ \A k \in DOMAIN attempts :
               /\ attempts[k].strategy = order[k]
               /\ \A j \in 1..(k - 1) : ~attempts[j].ok
        /\ (attempts # <<>> /\ AllFailed(attempts)) =>
               /\ Len(attempts) = 4
               /\ video_encoder.pc = "returned"
               /\ ~video_encoder.result.success
               /\ \A k \in 1..4 : InSeq(order[k], video_encoder.result.reasons)
               /\ video_encoder.write_attempts = <<>>
        /\ video_encoder.write_attempts # <<>> =>
               /\ attempts # <<>>
               /\ attempts[Len(attempts)].ok
               /\ video_encoder.written_clip = attempts[Len(attempts)].strategy

\* The first two constructions failed, the third gave the clip that was
\* written, and the fourth was not made
C27_Witness ==
    /\ video_encoder.pc = "returned"
    /\ video_encoder.result.success
    /\ video_encoder.clip_attempts =
           <<[strategy |-> "arrays+durations", ok |-> FALSE],
             [strategy |-> "arrays+fps", ok |-> FALSE],
             [strategy |-> "paths+durations", ok |-> TRUE]>>
    /\ video_encoder.written_clip = "paths+durations"

\* The write_videofile calls of the create_video call
WriteCalls == video_encoder.write_attempts

\* The parameter sets, from the widest to the narrowest
WriteOrder == <<"fps+codec+bitrate", "fps+codec", "fps">>

\* The calls are made in the order of the parameter sets, each with the
\* requested frame rate
WritesNarrowing ==
    /\ Len(WriteCalls) <= 3
    /\ \A k \in DOMAIN WriteCalls :
           /\ WriteCalls[k].params = WriteOrder[k]
           /\ WriteCalls[k].fps = video_encoder.fps

\* create_video failed in writing
WriteFailed ==
    video_encoder.pc = "returned" /\ ~video_encoder.result.success /\ WriteCalls # <<>>

C29_FailureReportedToCallback ==
    (/\ video_encoder.pc = "returned"
     /\ video_encoder.moviepy_available
     /\ ~video_encoder.result.success) =>
        /\ video_encoder.reported_errors = <<video_encoder.result.error>>
        /\ video_encoder.progress # <<>>
        /\ video_encoder.progress[Len(video_encoder.progress)] = 0

(***************************************************************************)
(* Properties of the stage pipeline                                        *)
(***************************************************************************)
\* The polls of the cancellation flag that found it clear
ClearPolls == Cardinality({i \in DOMAIN polls : ~polls[i]})

\* A poll of the cancellation flag has found it set
StopPolled == \E i \in DOMAIN polls : polls[i]

\* C30: the tracker steps of a run are entered in the order 1, 2, 3, 4, 5,
\* one at a time; every stage is begun after its own poll of the cancellation
\* flag, made after the stage before it, found the flag clear; once a poll has
\* found the flag set, no stage is begun and update_progress is not called.
C30_FivePolledStages ==
    /\ [](progress_tracker.current_step <= ClearPolls)
    /\ [][/\ progress_tracker'.current_step \in
                 {progress_tracker.current_step, progress_tracker.current_step + 1}
          /\ StopPolled => progress_tracker'.current_step = progress_tracker.current_step
          /\ StopPolled => progress_tracker'.last_update_time = progress_tracker.last_update_time
         ]_vars

(***************************************************************************)
(* Properties of validate_files                                            *)
(***************************************************************************)
\* sub is seq with some of its elements left out, the others in their order
RECURSIVE IsSubsequence(_, _)
IsSubsequence(sub, seq) ==
    IF sub = <<>> THEN TRUE
    ELSE IF seq = <<>> THEN FALSE
    ELSE IF Head(sub) = Head(seq) THEN IsSubsequence(Tail(sub), Tail(seq))
    ELSE IsSubsequence(sub, Tail(seq))

\* The error strings of a validate_files result that name the file
ErrorsNaming(result, name) == Cardinality({i \in DOMAIN result.errors : result.errors[i].file = name})

\* C31: validate_files returns for every list of paths; the valid list holds
\* input files in input order; every occurrence of a file in the input is
\* either one element of the valid list or one error string, and a file is
\* never both valid and rejected, so the two lists together are as long as
\* the input, whatever was rejected earlier in the list.
C31_ValidateFilesPartitions ==
    validate_call.pc = "returned" =>
        LET input == validate_call.file_paths
            result == validate_call.result
        IN  /\ Len(result.valid_files) + Len(result.errors) = Len(input)
            /\ IsSubsequence(result.valid_files, input)
            /\ \A name \in ValidateNames :
                   /\ Multiplicity(result.valid_files, name) + ErrorsNaming(result, name)
                          = Multiplicity(input, name)
                   /\ Multiplicity(result.valid_files, name) = 0 \/ ErrorsNaming(result, name) = 0

\* A call where a rejected file is followed by a valid one and by another
\* rejected one
C31_Witness ==
    /\ validate_call.pc = "returned"
    /\ validate_call.file_paths =
           << <<"b", ".", "P", "N", "G">>, <<"a", ".", "j", "p", "g">>, <<"c", ".", "t", "x", "t">> >>
    /\ validate_call.result.valid_files = << <<"a", ".", "j", "p", "g">> >>
    /\ Len(validate_call.result.errors) = 2
    /\ validate_call.result.errors[1].error = "File does not exist"

(***************************************************************************)
(* Properties of the report's recommendations                              *)
(***************************************************************************)
\* The recorded entries whose message names a file
FileErrorCount ==
    Cardinality({i \in DOMAIN AllErrors(error_logger) :
                     AllErrors(error_logger)[i].mentions \cap {"file", "not found"} # {}})

\* The recorded entries of type ImageProcessingError
ImageErrorCount ==
    Cardinality({i \in DOMAIN AllErrors(error_logger) :
                     AllErrors(error_logger)[i].error_type = "ImageProcessingError"})

\* The recorded entries whose message mentions permission
PermissionErrorCount ==
    Cardinality({i \in DOMAIN AllErrors(error_logger) :
                     "permission" \in AllErrors(error_logger)[i].mentions})

\* C32: the report recommends checking file access exactly when at least 5
\* recorded entries are file errors, checking image integrity exactly when
\* at least 3 entries are image-processing errors, and the permission advice
\* exactly when at least 1 entry mentions permission.
C32_RecommendationThresholds ==
    report_call.pc = "returned" =>
        LET recommended == Range(report_call.result.recommendations)
        IN  /\ "file_access" \in recommended <=> FileErrorCount >= 5
            /\ "image_integrity" \in recommended <=> ImageErrorCount >= 3
            /\ "permission" \in recommended <=> PermissionErrorCount >= 1

(***************************************************************************)
(* Properties of ErrorLogger instances in one process                      *)
(***************************************************************************)
\* C33: every entry an ErrorLogger instance holds has been written to the
\* instance's own log file (the live file or a backup of it) and to the log
\* file of no other instance, however many instances the process has made.
C33_InstancesIsolated ==
    \A i \in Instances :
        \A n \in DOMAIN InstanceEntries(i) :
            /\ InstanceEntries(i)[n].id \in IdsOnDisk(loggers[i].fs)
            /\ \A j \in Instances \ {i} :
                   loggers[j].created => InstanceEntries(i)[n].id \notin IdsOnDisk(loggers[j].fs)

(***************************************************************************)
(* Properties of the threads that use the tracker                          *)
(***************************************************************************)
\* A step of the run's thread: run() moves on.  stop() is a step of the
\* caller's thread and leaves the position of run() as it is.
WorkerThreadStep == wpc' # wpc

\* run() has initialized the tracker and has not returned
RunInProgress == wpc \notin {"start", "done"}

\* C34: every change of the run's progress tracker is made by a step of the
\* orchestrator's background thread, the change made by stop() included, so
\* that no other thread operates on the tracker while the run does.
C34_TrackerSingleCaller ==
    [][(RunInProgress /\ progress_tracker' # progress_tracker) => WorkerThreadStep]_vars

(***************************************************************************)
(* Properties of the entries attached to a tracker                         *)
(***************************************************************************)
\* What timing and percentage are computed from
TimingState(t) ==
    [status |-> t.status, current_step |-> t.current_step, total_steps |-> t.total_steps,
     percentage |-> GetCurrentProgress(t), start_time |-> t.start_time,
     end_time |-> t.end_time, step_start_time |-> t.step_start_time,
     step_timings |-> t.step_timings]

\* The three collections of attached entries
Collections(t) ==
    [errors |-> t.errors, warnings |-> t.warnings, performance_metrics |-> t.performance_metrics]

\* The step is a call of the named operation
Calls(op) == last_call'.op = op /\ last_call' # last_call

\* C35: add_performance_metric, add_error and add_warning change their own
\* collection and nothing else: status, current step, total steps,
\* percentage, start and end time, the open step window and the step timings
\* stay as they are, the other two collections stay as they are, and no
\* callback is called.
C35_NotesLeaveTimingAlone ==
    [][/\ (Calls("add_error") \/ Calls("add_warning") \/ Calls("add_performance_metric")) =>
              /\ TimingState(progress_tracker') = TimingState(progress_tracker)
              /\ cb_calls' = cb_calls
              /\ progress_tracker'.callbacks = progress_tracker.callbacks
       /\ Calls("add_error") =>
              Collections(progress_tracker') =
                  [Collections(progress_tracker) EXCEPT !.errors = progress_tracker'.errors]
       /\ Calls("add_warning") =>
              Collections(progress_tracker') =
                  [Collections(progress_tracker) EXCEPT !.warnings = progress_tracker'.warnings]
       /\ Calls("add_performance_metric") =>
              Collections(progress_tracker') =
                  [Collections(progress_tracker) EXCEPT
                       !.performance_metrics = progress_tracker'.performance_metrics]
      ]_vars

\* An error has been attached during step 1 of a running operation with a
\* callback registered
C35_Witness ==
    /\ last_call.op = "add_error"
    /\ progress_tracker.status = "running"
    /\ progress_tracker.current_step = 1
    /\ progress_tracker.callbacks # <<>>
    /\ \E i \in DOMAIN progress_tracker.errors :
           /\ progress_tracker.errors[i].type = "ProcessingError"
           /\ progress_tracker.errors[i].step_number = 1

(***************************************************************************)
(* Properties of error callbacks that use the ErrorLogger                  *)
(***************************************************************************)
\* Thread t is inside an error callback that has called a lock-taking
\* operation of the ErrorLogger
InReentrantCallback(t) == pc[t] \in CallbackPcs

\* C36: error callbacks are called with the lock held, and the lock is not
\* reentrant: a thread whose callback calls a lock-taking operation of the
\* same ErrorLogger holds the lock and stays where it is from then on, so its
\* critical append never returns, and no other thread stores an entry or
\* returns from an append any more.
C36_ReentrantCallbackBlocks ==
    /\ [](\A t \in Threads : InReentrantCallback(t) =>
              /\ lock = t
              /\ cur[t].severity = "critical")
    /\ [][\A t \in Threads : InReentrantCallback(t) =>
              /\ pc'[t] = pc[t]
              /\ lock' = t
              /\ count' = count
              /\ error_logger' = error_logger
         ]_vars

\* Thread 1 is blocked in its callback with its critical entry stored and
\* not returned, and thread 2 waits for the lock with an entry of its own
C36_Witness ==
    /\ InReentrantCallback(1)
    /\ count[1] = 0
    /\ Len(error_logger.critical_errors) = 1
    /\ pc[2] = "acquire"

(***************************************************************************)
(* Properties of complete_operation in a run                               *)
(***************************************************************************)
\* The run has ended with a success completion notification
RunSucceeded == wpc = "done" /\ \E i \in DOMAIN finished : finished[i].success

\* The timing records of the tracker for a step
TimingsOfStep(step) ==
    {i \in DOMAIN progress_tracker.step_timings :
         progress_tracker.step_timings[i].step_number = step}

CallbackErrors ==
    {i \in DOMAIN progress_tracker.errors :
        progress_tracker.errors[i].type = "CallbackError"}

\* A step of the run that made an update_progress call
UpdateProgressStep == progress_tracker'.current_step # progress_tracker.current_step

\* C38: the one-parameter callback fails on every update_progress of a run.
\* Each update appends exactly one "CallbackError" to the tracker's errors, the
\* updates of stages 2 and 3 emit no progress notification, and the report of
\* a run that ended in success counts five errors, all of them callback errors.
C38_CallbackFailsOnEveryUpdate ==
    /\ [](RunSucceeded =>
            /\ Cardinality(CallbackErrors) = 5
            /\ Len(progress_tracker.errors) = 5
            /\ \A i \in DOMAIN finished :
                   finished[i].success => finished[i].report.error_count = 5)
    /\ [][UpdateProgressStep =>
            /\ Len(progress_tracker'.errors) = Len(progress_tracker.errors) + 1
            /\ progress_tracker'.errors[Len(progress_tracker'.errors)].type
                   = "CallbackError"
            /\ SubSeq(progress_tracker'.errors, 1, Len(progress_tracker.errors))
                   = progress_tracker.errors
            /\ (progress_tracker'.current_step \in {2, 3} =>
                   progress_emits' = progress_emits)]_vars

C38_Witness ==
    /\ RunSucceeded
    /\ progress_tracker.current_step = 5
    /\ Cardinality(CallbackErrors) = 5

(***************************************************************************)
(* The progress notifications of a successful run                          *)
(***************************************************************************)

\* The success notification has been emitted
SuccessEmitted == \E i \in DOMAIN finished : finished[i].success

NonDecreasing(seq) == \A i, j \in DOMAIN seq : i <= j => seq[i] <= seq[j]

\* C39: in every run that ends with a success notification, every emitted
\* percentage is within 0..100, the emitted percentages never decrease, the
\* last one is 100, and it is emitted before the success notification: the
\* step that emits the success notification emits 100 first, and no progress
\* notification follows it.
C39_ProgressOfSuccessfulRun ==
    /\ [](SuccessEmitted =>
            /\ \A i \in DOMAIN progress_emits : progress_emits[i] \in 0..100
            /\ NonDecreasing(progress_emits)
            /\ progress_emits # <<>>
            /\ progress_emits[Len(progress_emits)] = 100)
    /\ [][/\ (SuccessEmitted => progress_emits' = progress_emits)
          /\ ((~SuccessEmitted /\ SuccessEmitted') =>
                  progress_emits' = Append(progress_emits, 100))]_vars

C39_Witness ==
    /\ SuccessEmitted
    /\ wpc = "done"
    /\ \E i \in DOMAIN progress_emits : progress_emits[i] = VideoProgressEmit(100)
    /\ \E i \in DOMAIN progress_emits : progress_emits[i] = VideoProgressEmit(50)

(***************************************************************************)
(* A stop request that arrives after the check of stage 4                  *)
(***************************************************************************)

\* All four stage-boundary checks read the flag clear
FourClearPolls == polls = <<FALSE, FALSE, FALSE, FALSE>>

\* stop() was called, and after the check of stage 4
StopAfterStage4 == should_stop /\ FourClearPolls

\* run is inside create_video or about to call it
InsideStage4 == wpc \in {"stage4", "encode_load", "encode_write"}

\* What a run that passed the four checks emits when every call of the
\* encoder's progress callback is passed on
ExpectedEmits ==
    <<5, 15, 15, 20, 25>>
        \o [i \in DOMAIN video_encoder.progress |->
                VideoProgressEmit(video_encoder.progress[i])]
        \o (IF CreateVideoSucceeded(video_encoder) THEN <<100>> ELSE <<>>)

\* The outcome of a run that passed the four checks is the encoder's alone:
\* create_video ran until it returned or raised, a successful encode read
\* every image and wrote the file, and the one completion notification
\* reports success exactly when the encode succeeded. A stop request leaves
\* one warning in the tracker.
OutcomeOfStage4 ==
    (wpc = "done" /\ FourClearPolls) =>
        /\ video_encoder.pc \in {"returned", "raised"}
        /\ Len(finished) = 1
        /\ finished[1].success = CreateVideoSucceeded(video_encoder)
        /\ (CreateVideoSucceeded(video_encoder) =>
               /\ video_encoder.images_read = Len(valid_files)
               /\ video_encoder.write_attempts # <<>>
               /\ progress_tracker.status = "completed"
               /\ progress_tracker.current_step = 5)
        /\ Len(progress_tracker.warnings) = (IF should_stop THEN 1 ELSE 0)

\* C40 as stated: a stop request after the check of stage 4 changes nothing
\* but the tracker's warnings, so the run emits the progress notifications it
\* emits without the request.
C40_StopAfterStage4OnlyWarning ==
    (wpc = "done" /\ StopAfterStage4) =>
        /\ OutcomeOfStage4
        /\ progress_emits = ExpectedEmits

\* C40: a stop request after the check of stage 4 does not change the outcome
\* of the run: the encoder runs to its end, and the run reports success when
\* the encode succeeded although cancellation was requested. The request
\* leaves the warning in the tracker, and from the request on the progress
\* callback of the encoder emits no progress notification.
C40_StopAfterStage4 ==
    /\ []OutcomeOfStage4
    /\ [][(should_stop /\ InsideStage4) => progress_emits' = progress_emits]_vars

C40_Witness ==
    /\ wpc = "done"
    /\ StopAfterStage4
    /\ observed_stop
    /\ SuccessEmitted
    /\ progress_emits # ExpectedEmits


====
